---- MODULE Spec2Model ----
(***************************************************************************)
(* The view-window state machine of the history timeline: the HistoryArrow *)
(* component (viewStart / viewEnd), the LogarithmicMinimap gestures that   *)
(* write back into it, and the scale and cluster utilities they call.      *)
(*                                                                         *)
(* Number representation.  The program holds years-ago values as doubles   *)
(* between 0.001 and 5e9 and moves between them and their base-10          *)
(* logarithms.  Here a years-ago value is held as its logarithm in         *)
(* fixed point: the integer 100 * log10(years), a "centi-decade" (1 year   *)
(* is 0, 1000 years is 300, 0.001 year is -300).  Screen positions, which  *)
(* the program holds as percentages, are held in hundredths of a percent   *)
(* (100% is 10000).  Quantities the program computes on the linear scale   *)
(* are computed through PowRel / LogRel, a table-driven 10^x and log10.    *)
(***************************************************************************)
EXTENDS Integers, Sequences, FiniteSets

\* ------------------------------------------------------------------ bounds
\* Number of gestures in one explored session.
MaxSteps == 4

\* Tolerance, in centi-decades, of the statements made "within tolerance".
Tol == 2

\* Tolerance, in hundredths of a percent, of the statements about screen
\* positions made "within epsilon": 5 percent of the width.
PosEps == 500

\* --------------------------------------------------------------- constants
\* 0.001 years ago: log10 = -3.
DEFAULT_MIN_YEARS == -300

\* 5e9 years ago: log10 = 9.69897.
DEFAULT_MAX_YEARS == 970

\* The current date as a fractional year (2026.8): log10 = 3.3068.
CURRENT_YEAR == 331

\* The position 100 (percent), and one percent.
PosFull == 10000

PosOne == 100

\* One, on the scale PowRel and LogRel use for linear quantities.
RelOne == 100000

\* ----------------------------------------------------------------- numbers
\* Math.max, Math.min, Math.abs
Max(a, b) == IF a >= b THEN a ELSE b

Min(a, b) == IF a <= b THEN a ELSE b

Abs(a) == IF a >= 0 THEN a ELSE -a

\* Math.min(...values), Math.max(...values)
SetMin(S) == CHOOSE x \in S : \A y \in S : x <= y

SetMax(S) == CHOOSE x \in S : \A y \in S : x >= y

\* 10^(-i/100) * RelOne for i = 0..99 (the entry for i is at index i + 1).
Mant ==
  << 100000, 97724, 95499, 93325, 91201, 89125, 87096, 85114, 83176, 81283,
     79433, 77625, 75858, 74131, 72444, 70795, 69183, 67608, 66069, 64565,
     63096, 61660, 60256, 58884, 57544, 56234, 54954, 53703, 52481, 51286,
     50119, 48978, 47863, 46774, 45709, 44668, 43652, 42658, 41687, 40738,
     39811, 38905, 38019, 37154, 36308, 35481, 34674, 33884, 33113, 32359,
     31623, 30903, 30200, 29512, 28840, 28184, 27542, 26915, 26303, 25704,
     25119, 24547, 23988, 23442, 22909, 22387, 21878, 21380, 20893, 20417,
     19953, 19498, 19055, 18621, 18197, 17783, 17378, 16982, 16596, 16218,
     15849, 15488, 15136, 14791, 14454, 14125, 13804, 13490, 13183, 12882,
     12589, 12303, 12023, 11749, 11482, 11220, 10965, 10715, 10471, 10233 >>

\* 10^k for k = 0..5 (the entry for k is at index k + 1).
TenTo == << 1, 10, 100, 1000, 10000, 100000 >>

\* Math.pow(10, x) for x <= 0, x in centi-decades, as a multiple of 1/RelOne.
PowRel(d) ==
  LET n == -d
      whole == n \div 100
      frac == n % 100
  IN  IF d > 0 THEN RelOne
      ELSE IF whole > 5 THEN 0
      ELSE Mant[frac + 1] \div TenTo[whole + 1]

\* Math.log10(x) for 0 < x <= 1, x a multiple of 1/RelOne; in centi-decades,
\* rounded down.
LogRel(x) ==
  LET whole == IF x > 10000 THEN 0 ELSE IF x > 1000 THEN 1 ELSE IF x > 100 THEN 2
               ELSE IF x > 10 THEN 3 ELSE IF x > 1 THEN 4 ELSE 5
  IN  IF x >= RelOne THEN 0
      ELSE CHOOSE d \in (-100 * (whole + 1))..(-100 * whole) :
             PowRel(d) <= x /\ PowRel(d + 1) > x

\* ------------------------------------------------------------ scale (log)
\* yearToLogPosition: years-ago to a position on the logarithmic scale.
yearToLogPosition(yearsAgo, minYearsAgo, maxYearsAgo) ==
  IF yearsAgo <= minYearsAgo THEN PosFull
  ELSE IF yearsAgo >= maxYearsAgo THEN 0
  ELSE LET logMin == Max(minYearsAgo, 0)      \* log10(max(minYearsAgo, 1))
           logMax == maxYearsAgo
           logYear == yearsAgo
       IN  PosFull - ((logYear - logMin) * PosFull) \div (logMax - logMin)

\* logPositionToYear with logMin = log10(minYearsAgo).
logPositionToYearFromMin(position, minYearsAgo, maxYearsAgo) ==
  LET clampedPosition == Max(0, Min(PosFull, position))
      logMin == minYearsAgo
      logMax == maxYearsAgo
  IN  logMax - (clampedPosition * (logMax - logMin)) \div PosFull

\* logPositionToYear: a position on the logarithmic scale to years-ago.
logPositionToYear(position, minYearsAgo, maxYearsAgo) ==
  LET clampedPosition == Max(0, Min(PosFull, position))
      logMin == Max(minYearsAgo, 0)
      logMax == maxYearsAgo
  IN  logMax - (clampedPosition * (logMax - logMin)) \div PosFull

\* ---------------------------------------------------------- scale (linear)
\* The value the program gets from 0/0; arithmetic on it gives it again and
\* every comparison with it is false.
NaN == -1000000

\* A window whose bounds are both NaN.
NaNView == << NaN, NaN >>

\* yearToLinearPosition: not clamped.  The three years-ago values are taken
\* relative to the largest of them, which leaves the quotient unchanged.
yearToLinearPosition(yearsAgo, minYearsAgo, maxYearsAgo) ==
  LET top == Max(yearsAgo, maxYearsAgo)
      y == PowRel(yearsAgo - top)
      lo == PowRel(minYearsAgo - top)
      hi == PowRel(maxYearsAgo - top)
  IN  IF hi = lo THEN NaN
      ELSE PosFull - ((y - lo) * PosFull) \div (hi - lo)

\* linearPositionToYear.  The result is taken relative to maxYearsAgo; the
\* position 100 is minYearsAgo itself, a position above 100 a value below
\* minYearsAgo and a position below 0 (down to -100) one above maxYearsAgo.
linearPositionToYear(position, minYearsAgo, maxYearsAgo) ==
  LET lo == PowRel(minYearsAgo - maxYearsAgo)
      rel == lo + ((PosFull - position) * (RelOne - lo)) \div PosFull
  IN  IF rel = lo THEN minYearsAgo
      ELSE IF rel > RelOne THEN maxYearsAgo + 100 + LogRel(rel \div 10)
      ELSE maxYearsAgo + LogRel(rel)

\* -------------------------------------------------------------- events
\* An event record.  An absent value (null) is the empty sequence, a present
\* one the one-element sequence.  start_date / end_date hold the time from
\* the date to now in tenths of a mean year (negative for a date after now);
\* the astronomical years hold the stored years-ago value.
Ev(id, type, sd, ed, as, ae, label) ==
  [id |-> id, date_type |-> type, start_date |-> sd, end_date |-> ed,
   astronomical_start_year |-> as, astronomical_end_year |-> ae,
   label |-> label]

\* The stored years-ago value 0: it has no logarithm, and it is falsy.
ZeroYears == -2000000

\* Math.log10 of a whole number of years up to 9999; of a number that is not
\* positive it is -Infinity or NaN.
LogYears(n) ==
  LET k == IF n < 10 THEN 1 ELSE IF n < 100 THEN 2 ELSE IF n < 1000 THEN 3 ELSE 4
  IN  IF n <= 0 THEN NaN
      ELSE 100 * k + LogRel((n * RelOne) \div TenTo[k + 1])

\* Math.round of a number of tenths: to the nearest whole, halves upwards.
Round(tenths) == (tenths + 5) \div 10

\* dateToYearsAgo without the floor of one year.
dateToYearsAgoRounded(date) == LogYears(Round(date))

\* dateToYearsAgo: the years from the date to now, rounded, never below one.
dateToYearsAgo(date) == LogYears(Max(1, Round(date)))

\* eventToYearsAgo
eventToYearsAgo(event) ==
  IF event.date_type = "astronomical"
    THEN event.astronomical_start_year[1]
    ELSE dateToYearsAgo(event.start_date[1])

\* eventEndToYearsAgo: <<>> is null.
eventEndToYearsAgo(event) ==
  IF event.date_type = "astronomical"
    THEN IF event.astronomical_end_year = << ZeroYears >>
           THEN <<>>                       \* astronomical_end_year || null
           ELSE event.astronomical_end_year
    ELSE IF event.end_date # <<>>
      THEN << dateToYearsAgo(event.end_date[1]) >>
      ELSE <<>>

\* sampleEvents of the home page, with the dates taken on 2026-11-01.
sampleEvents ==
  << Ev(1, "astronomical", <<>>, <<>>, << 966 >>, <<>>, "nature"),       \* 4.54e9
     Ev(2, "astronomical", <<>>, <<>>, << 966 >>, << 960 >>, "nature"),  \* 4.6e9 .. 4.0e9
     Ev(3, "astronomical", <<>>, <<>>, << 873 >>, << 869 >>, "nature"),  \* 5.38e8 .. 4.85e8
     Ev(4, "astronomical", <<>>, <<>>, << 782 >>, <<>>, "nature"),       \* 6.6e7
     Ev(5, "date", << 1470 >>, <<>>, <<>>, <<>>, "discovery"),           \* 1879-10-21
     Ev(6, "date", << 872 >>, << 812 >>, <<>>, <<>>, "war"),             \* 1939 .. 1945
     Ev(7, "date", << 573 >>, <<>>, <<>>, <<>>, "discovery") >>          \* 1969-07-20

\* filteredEvents of the home page: the events of the active labels.
filteredEvents(displayEvents, activeLabels) ==
  IF activeLabels = {} THEN displayEvents
  ELSE SelectSeq(displayEvents, LAMBDA e : e.label \in activeLabels)

\* The event lists the timeline is given in the explored sessions.
EventLists ==
  { filteredEvents(sampleEvents, { "nature" }),
    filteredEvents(sampleEvents, { "discovery", "war" }) }

\* ---------------------------------------------------------------- minimap
\* Mutant of handleMouseMove: the move starts from the window at the time of
\* the move, not from the one captured at mouse-down.
handleMouseMoveFromView(initialView, dragType, deltaPercent, view, totalMin, totalMax) ==
  LET initialLeftPos == yearToLogPosition(view.end, totalMin, totalMax)
      initialRightPos == yearToLogPosition(view.start, totalMin, totalMax)
      width == initialRightPos - initialLeftPos
      newLeftPos ==
        IF dragType = "move"
          THEN Max(0, Min(PosFull - width, initialLeftPos + deltaPercent))
        ELSE IF dragType = "left"
          THEN Max(0, Min(initialRightPos - PosOne, initialLeftPos + deltaPercent))
        ELSE initialLeftPos
      newRightPos ==
        IF dragType = "move" THEN newLeftPos + width
        ELSE IF dragType = "left" THEN initialRightPos
        ELSE Max(initialLeftPos + PosOne, Min(PosFull, initialRightPos + deltaPercent))
  IN  << logPositionToYear(newRightPos, totalMin, totalMax),
         logPositionToYear(newLeftPos, totalMin, totalMax) >>

\* handleMouseMove: the window a pointer-move passes to onViewChange.
\* initialView, dragType: captured at mouse-down; deltaPercent: the pointer's
\* displacement since mouse-down.  view: the window at the time of the move.
handleMouseMove(initialView, dragType, deltaPercent, view, totalMin, totalMax) ==
  IF initialView.start = NaN \/ initialView.end = NaN THEN NaNView ELSE
  LET initialLeftPos == yearToLogPosition(initialView.end, totalMin, totalMax)
      initialRightPos == yearToLogPosition(initialView.start, totalMin, totalMax)
      width == initialRightPos - initialLeftPos
      newLeftPos ==
        IF dragType = "move"
          THEN Max(0, Min(PosFull - width, initialLeftPos + deltaPercent))
        ELSE IF dragType = "left"
          THEN Max(0, Min(initialRightPos - PosOne, initialLeftPos + deltaPercent))
        ELSE initialLeftPos
      newRightPos ==
        IF dragType = "move" THEN newLeftPos + width
        ELSE IF dragType = "left" THEN initialRightPos
        ELSE Max(initialLeftPos + PosOne, Min(PosFull, initialRightPos + deltaPercent))
      newEnd == logPositionToYear(newLeftPos, totalMin, totalMax)
      newStart == logPositionToYear(newRightPos, totalMin, totalMax)
  IN  << newStart, newEnd >>

\* Mutant of handleMinimapClick: the span is not halved around the click.
handleMinimapClickFullSpan(clickPercent, vs, ve, totalMin, totalMax) ==
  LET logClicked == logPositionToYear(clickPercent, totalMin, totalMax)
      currentSpan == Abs(ve - vs)
  IN  << Max(totalMin, logClicked - currentSpan),
         Min(totalMax, logClicked + currentSpan) >>

\* handleMinimapClick: the window a click on the background passes on.
handleMinimapClick(clickPercent, vs, ve, totalMin, totalMax) ==
  IF vs = NaN \/ ve = NaN THEN NaNView ELSE
  LET clickedYears == logPositionToYear(clickPercent, totalMin, totalMax)
      currentSpan == Abs(ve - vs)
      logClicked == clickedYears
      \* logClicked -/+ currentSpan / 2
      newStart == (2 * logClicked - currentSpan) \div 2
      newEnd == (2 * logClicked + currentSpan) \div 2
  IN  << Max(totalMin, newStart), Min(totalMax, newEnd) >>

\* Mutant of handlePanLeft: the far bound is cut at totalMax and the near
\* bound still takes the whole shift.
handlePanLeftTruncated(vs, ve, totalMax) ==
  LET panAmount == ((ve - vs) * 25) \div 100
  IN  << vs + panAmount, Min(totalMax, ve + panAmount) >>

\* handlePanLeft: further into the past.
handlePanLeft(vs, ve, totalMax) ==
  IF vs = NaN \/ ve = NaN THEN NaNView ELSE
  LET currentSpan == ve - vs
      panAmount == (currentSpan * 25) \div 100
      newLogStart == vs + panAmount
      newLogEnd == ve + panAmount
  IN  IF newLogEnd > totalMax
        THEN LET overflow == newLogEnd - totalMax
             IN  << newLogStart - overflow, totalMax >>
        ELSE << newLogStart, newLogEnd >>

\* Mutant of handlePanRight: the step is 20% of the span.
handlePanRightByFifth(vs, ve, totalMin) ==
  LET panAmount == ((ve - vs) * 20) \div 100
      newLogStart == vs - panAmount
      newLogEnd == ve - panAmount
  IN  IF newLogStart < totalMin
        THEN << totalMin, newLogEnd + (totalMin - newLogStart) >>
        ELSE << newLogStart, newLogEnd >>

\* handlePanRight: closer to the present.
handlePanRight(vs, ve, totalMin) ==
  IF vs = NaN \/ ve = NaN THEN NaNView ELSE
  LET currentSpan == ve - vs
      panAmount == (currentSpan * 25) \div 100
      newLogStart == vs - panAmount
      newLogEnd == ve - panAmount
  IN  IF newLogStart < totalMin
        THEN LET overflow == totalMin - newLogStart
             IN  << totalMin, newLogEnd + overflow >>
        ELSE << newLogStart, newLogEnd >>

\* The span a zoom-in / zoom-out step aims at.
zoomInSpan(currentSpan) == Max(50, (currentSpan * 7) \div 10)

\* Mutant of zoomOutSpan: no cap at 10 decades.
zoomOutSpanUncapped(currentSpan) == (currentSpan * 14) \div 10

zoomOutSpan(currentSpan) == Min(1000, (currentSpan * 14) \div 10)

\* handleZoomIn: center -/+ newSpan / 2, clamped to the domain.
handleZoomIn(vs, ve, totalMin, totalMax) ==
  IF vs = NaN \/ ve = NaN THEN NaNView ELSE
  LET newSpan == zoomInSpan(ve - vs)
      center2 == vs + ve
  IN  << Max(totalMin, (center2 - newSpan) \div 2),
         Min(totalMax, (center2 + newSpan) \div 2) >>

\* handleZoomOut
handleZoomOut(vs, ve, totalMin, totalMax) ==
  IF vs = NaN \/ ve = NaN THEN NaNView ELSE
  LET newSpan == zoomOutSpan(ve - vs)
      center2 == vs + ve
  IN  << Max(totalMin, (center2 - newSpan) \div 2),
         Min(totalMax, (center2 + newSpan) \div 2) >>

\* ----------------------------------------------------------- HistoryArrow
\* handleViewChange: the window stored for a requested one.
handleViewChange(w) ==
  << IF w[1] = NaN THEN NaN ELSE Max(DEFAULT_MIN_YEARS, w[1]),
     IF w[2] = NaN THEN NaN ELSE Min(DEFAULT_MAX_YEARS, w[2]) >>

\* handleWheel of the timeline that zooms on the wheel: the window passed to
\* handleViewChange.  mousePercent: the pointer's position on the arrow;
\* deltaY: the wheel's direction, 1 or -1.  On a window of zero width
\* mouseRelative is 0/0.
handleWheel(mousePercent, deltaY, vs, ve) ==
  IF vs = NaN \/ ve = NaN \/ vs = ve THEN NaNView ELSE
  LET mouseYears == linearPositionToYear(mousePercent, vs, ve)
      currentSpan == ve - vs
      scaled == IF deltaY > 0 THEN (currentSpan * 130) \div 100
                              ELSE (currentSpan * 77) \div 100
      newSpan == Max(50, Min(1000, scaled))
      \* (mouseYears - viewStart) / (viewEnd - viewStart), on the linear scale
      lo == PowRel(vs - ve)
      mouseRelative == ((PowRel(mouseYears - ve) - lo) * PosFull) \div (RelOne - lo)
      logMouse == mouseYears
      newLogStart == logMouse - (mouseRelative * newSpan) \div PosFull
      newLogEnd == logMouse + ((PosFull - mouseRelative) * newSpan) \div PosFull
  IN  << newLogStart, newLogEnd >>

\* eventBounds of the timeline that zooms on the wheel: the events' extent,
\* padded by 5% in log space.
eventBounds(evs) ==
  LET values == { eventToYearsAgo(evs[i]) : i \in 1..Len(evs) } \cup
                { eventEndToYearsAgo(evs[i])[1] :
                    i \in { j \in 1..Len(evs) : eventEndToYearsAgo(evs[j]) # <<>> } }
      logMin == Max(0, SetMin(values))
      logMax == SetMax(values)
      logPadding == ((logMax - logMin) * 5) \div 100
  IN  IF evs = <<>> THEN << DEFAULT_MIN_YEARS, DEFAULT_MAX_YEARS >>
      ELSE << Max(0, logMin - logPadding), logMax + logPadding >>

\* handleReset of the timeline that zooms on the wheel.
handleResetEarlier(evs) == eventBounds(evs)

\* Mutant of centerOnEvent: a span event is centered on the midpoint of its
\* start and end.
centerOnEventMidpoint(event) ==
  LET s == eventToYearsAgo(event)
      e == eventEndToYearsAgo(event)
      top == IF e = <<>> THEN s ELSE Max(s, e[1])
      mid == IF e = <<>> THEN s
             ELSE top + LogRel((PowRel(s - top) + PowRel(e[1] - top)) \div 2)
  IN  << DEFAULT_MIN_YEARS, Min(mid + 30, DEFAULT_MAX_YEARS) >>

\* centerOnEvent: the window set for an event.
centerOnEvent(event) ==
  LET yearsAgo == eventToYearsAgo(event)
      newEnd == Min(yearsAgo + 30, DEFAULT_MAX_YEARS)   \* yearsAgo * 2
  IN  << DEFAULT_MIN_YEARS, newEnd >>

\* Mutant of handleReset: the window is set to the events' extent.
handleResetToEventBounds(evs) == eventBounds(evs)

\* handleReset: the window set by Reset View.
handleReset(evs) == << DEFAULT_MIN_YEARS, CURRENT_YEAR >>

\* --------------------------------------------------------------- clusters
\* positionedEvents: the events that pass the visibility filter for the
\* window, with their positions on the linear scale.
\* isSpan from end_date alone.
isSpanByEndDate(event) == event.end_date # <<>>

isSpan(event) ==
  IF event.date_type = "astronomical"
    THEN /\ event.astronomical_end_year # <<>>          \* !!astronomical_end_year
         /\ event.astronomical_end_year # << ZeroYears >>
    ELSE event.end_date # <<>>

\* positionedEvents without its filter.
isVisibleAlways(event, vs, ve) == TRUE

isVisible(event, vs, ve) ==
  LET startYearsAgo == eventToYearsAgo(event)
      endYearsAgo == eventEndToYearsAgo(event)
      other == IF endYearsAgo # <<>> THEN endYearsAgo[1] ELSE startYearsAgo
      spanStart == Max(startYearsAgo, other)
      spanEnd == Min(startYearsAgo, other)
  IN  IF ~isSpan(event)
        THEN startYearsAgo >= vs /\ startYearsAgo <= ve
        ELSE spanStart >= vs /\ spanEnd <= ve

positioned(event, vs, ve) ==
  LET endYearsAgo == eventEndToYearsAgo(event)
  IN  [id |-> event.id,
       isSpan |-> isSpan(event),
       yearsAgo |-> eventToYearsAgo(event),
       endYearsAgo |-> endYearsAgo,
       startPos |-> yearToLinearPosition(eventToYearsAgo(event), vs, ve),
       endPos |-> IF endYearsAgo # <<>>
                    THEN << yearToLinearPosition(endYearsAgo[1], vs, ve) >>
                    ELSE <<>>]

positionedEvents(evs, vs, ve) ==
  LET shown == SelectSeq(evs, LAMBDA e : isVisible(e, vs, ve))
  IN  [i \in 1..Len(shown) |-> positioned(shown[i], vs, ve)]

\* [...events].sort((a, b) => a.startPos - b.startPos): stable.
RECURSIVE InsertByPos(_, _)
InsertByPos(sorted, e) ==
  IF sorted = <<>> THEN << e >>
  ELSE IF e.startPos # NaN /\ Head(sorted).startPos # NaN
          /\ e.startPos < Head(sorted).startPos
    THEN << e >> \o sorted
    ELSE << Head(sorted) >> \o InsertByPos(Tail(sorted), e)

RECURSIVE SortByPos(_)
SortByPos(evs) ==
  IF evs = <<>> THEN <<>>
  ELSE InsertByPos(SortByPos(SubSeq(evs, 1, Len(evs) - 1)), evs[Len(evs)])

RECURSIVE SumPos(_)
SumPos(evs) == IF evs = <<>> THEN 0 ELSE Head(evs).startPos + SumPos(Tail(evs))

\* createClusterObject
createClusterObject(evs) ==
  LET yearsAgoValues == { evs[i].yearsAgo : i \in 1..Len(evs) }
  IN  [id |-> [i \in 1..Len(evs) |-> evs[i].id],
       events |-> evs,
       position |-> SumPos(evs) \div Len(evs),
       count |-> Len(evs),
       minYearsAgo |-> SetMin(yearsAgoValues),
       maxYearsAgo |-> SetMax(yearsAgoValues)]

\* The loop of detectClusters measuring from the cluster's first member.
RECURSIVE ClusterWalkFromStart(_, _, _, _, _)
ClusterWalkFromStart(sortedEvents, i, currentCluster, clusters, threshold) ==
  LET closed == IF Len(currentCluster) > 1
                  THEN Append(clusters, createClusterObject(currentCluster))
                  ELSE clusters
  IN  IF i > Len(sortedEvents) THEN closed
      ELSE LET event == sortedEvents[i]
               near == Abs(event.startPos - currentCluster[1].startPos) <= threshold
           IN  IF near
                 THEN ClusterWalkFromStart(sortedEvents, i + 1,
                                           Append(currentCluster, event), clusters, threshold)
                 ELSE ClusterWalkFromStart(sortedEvents, i + 1, << event >>, closed, threshold)

\* The loop of detectClusters from index i on.
RECURSIVE ClusterWalk(_, _, _, _, _)
ClusterWalk(sortedEvents, i, currentCluster, clusters, threshold) ==
  LET closed == IF Len(currentCluster) > 1
                  THEN Append(clusters, createClusterObject(currentCluster))
                  ELSE clusters
  IN  IF i > Len(sortedEvents) THEN closed
      ELSE LET event == sortedEvents[i]
               prevEvent == currentCluster[Len(currentCluster)]
               near == /\ event.startPos # NaN
                       /\ prevEvent.startPos # NaN
                       /\ Abs(event.startPos - prevEvent.startPos) <= threshold
           IN  IF near
                 THEN ClusterWalk(sortedEvents, i + 1,
                                  Append(currentCluster, event), clusters, threshold)
                 ELSE ClusterWalk(sortedEvents, i + 1, << event >>, closed, threshold)

\* detectClusters without the sort.
detectClustersUnsorted(evs, threshold) ==
  IF evs = <<>> \/ evs[1] = <<>> THEN <<>>
  ELSE ClusterWalk(evs[1], 2, << evs[1][1] >>, <<>>, threshold)

\* detectClusters.  evs is <<>> for a missing list (null, undefined) and
\* << list >> for a list.
detectClusters(evs, threshold) ==
  IF evs = <<>> \/ evs[1] = <<>> THEN <<>>
  ELSE LET sortedEvents == SortByPos(evs[1])
       IN  ClusterWalk(sortedEvents, 2, << sortedEvents[1] >>, <<>>, threshold)

\* The clusters memo of HistoryArrow: point events only, 1.5% threshold.
clusters(evs, vs, ve) ==
  LET pointEvents == SelectSeq(positionedEvents(evs, vs, ve), LAMBDA e : ~e.isSpan)
  IN  detectClusters(<< pointEvents >>, 150)

\* getClusterZoomBounds without the minimum span.
getClusterZoomBoundsNoMinSpan(cluster) ==
  LET logMin == cluster.minYearsAgo
      logMax == cluster.maxYearsAgo
      logSpan == logMax - logMin
  IN  << Max(DEFAULT_MIN_YEARS, logMin - logSpan \div 2),
         Min(DEFAULT_MAX_YEARS, logMax + logSpan \div 2) >>

\* getClusterZoomBounds with the default padding 1.5.
getClusterZoomBounds(cluster) ==
  LET logMin == cluster.minYearsAgo
      logMax == cluster.maxYearsAgo
      logSpan == logMax - logMin
      paddedLogMin == logMin - logSpan \div 2       \* logSpan * (padding - 1)
      paddedLogMax == logMax + logSpan \div 2
      minSpan == 50
      actualSpan == paddedLogMax - paddedLogMin
      center2 == paddedLogMin + paddedLogMax
      finalLogMin == IF actualSpan < minSpan
                       THEN (center2 - minSpan) \div 2 ELSE paddedLogMin
      finalLogMax == IF actualSpan < minSpan
                       THEN (center2 + minSpan) \div 2 ELSE paddedLogMax
  IN  << Max(DEFAULT_MIN_YEARS, finalLogMin), Min(DEFAULT_MAX_YEARS, finalLogMax) >>

\* handleClusterClick to the cluster's own range.
handleClusterClickToRange(cluster) ==
  << Max(DEFAULT_MIN_YEARS, cluster.minYearsAgo),
     Min(DEFAULT_MAX_YEARS, cluster.maxYearsAgo) >>

\* handleClusterClick: the window set by a click on a cluster indicator.
handleClusterClick(cluster) ==
  LET w == getClusterZoomBounds(cluster)
  IN  << Max(DEFAULT_MIN_YEARS, w[1]), Min(DEFAULT_MAX_YEARS, w[2]) >>

\* ------------------------------------------------------------ the render
\* getClusteredEventIds: the ids of the members of all the clusters.
getClusteredEventIds(cls) ==
  UNION { { cls[c].events[i].id : i \in 1..Len(cls[c].events) } : c \in 1..Len(cls) }

\* shouldShowLabel(event, priorityThreshold, clusteredIds).  clusteredIds is
\* <<>> when the argument is not passed and << ids >> otherwise; a
\* priorityThreshold that is not a number is NaN in the comparison.  The
\* events of the model carry no priority, so event.priority || 3 is 3.
shouldShowLabel(event, priorityThreshold, clusteredIds) ==
  IF clusteredIds # <<>> /\ event.id \in clusteredIds[1] THEN FALSE
  ELSE LET eventPriority == 3
       IN  priorityThreshold # NaN /\ eventPriority >= priorityThreshold

\* activeCluster?.events?.some(e => e.id === event.id)
isInHoveredCluster(event, activeCluster) ==
  /\ activeCluster # <<>>
  /\ \E i \in 1..Len(activeCluster[1].events) :
       activeCluster[1].events[i].id = event.id

\* The props HistoryArrow hands to the EventMarker of one positioned event.
\* shouldShowLabel is called with two arguments, the set of clustered ids in
\* the place of the priority threshold.
markerProps(event, clusteredEventIds, hovered, selected, activeCluster) ==
  LET showLabel == shouldShowLabel(event, NaN, <<>>)
  IN  [isHovered |-> hovered = event.id,
       isSelected |-> selected = event.id,
       showLabel |-> showLabel \/ isInHoveredCluster(event, activeCluster),
       isInCluster |-> event.id \in clusteredEventIds,
       isInHoveredCluster |-> isInHoveredCluster(event, activeCluster),
       isDimmed |-> activeCluster # <<>> /\ ~isInHoveredCluster(event, activeCluster)]

\* EventMarker, a point event: the label is rendered under this condition.
pointLabel(props) == props.showLabel \/ props.isHovered \/ props.isSelected

\* -------------------------------------------------------------- LaneLayout
\* The layout that gives EventMarker its spanLaneRing / spanLaneDirection
\* (pointLaneRing / pointLaneDirection).  An item is [id, left, right], its
\* extent in hundredths of a percent of the container; spans and points are
\* laid out separately, each with its own padding and lane cap.
\* An item of zero or negative width is floored to the minimum width, 2%.
floorWidth(item) ==
  IF item.right - item.left <= 0
    THEN [item EXCEPT !.right = item.left + 200]
    ELSE item

\* Left edge ascending, ties by descending width, then by id.
laneOrder(a, b) ==
  \/ a.left < b.left
  \/ a.left = b.left /\ a.right - a.left > b.right - b.left
  \/ a.left = b.left /\ a.right - a.left = b.right - b.left /\ a.id < b.id

RECURSIVE InsertByLeft(_, _)
InsertByLeft(sorted, e) ==
  IF sorted = <<>> THEN << e >>
  ELSE IF laneOrder(e, Head(sorted))
    THEN << e >> \o sorted
    ELSE << Head(sorted) >> \o InsertByLeft(Tail(sorted), e)

RECURSIVE SortByLeft(_)
SortByLeft(items) ==
  IF items = <<>> THEN <<>>
  ELSE InsertByLeft(SortByLeft(SubSeq(items, 1, Len(items) - 1)), items[Len(items)])

\* The first lane for every item, whatever the lanes hold.
firstLaneOfAll(rightEdges, item, overlapPadding) == 1

\* The first lane whose right edge is <= item.left - overlapPadding, or a
\* new lane.  Lanes are counted from 1 here and from 0 in the result.
firstLane(rightEdges, item, overlapPadding) ==
  LET free == { l \in 1..Len(rightEdges) : rightEdges[l] <= item.left - overlapPadding }
  IN  IF free = {} THEN Len(rightEdges) + 1 ELSE SetMin(free)

\* The greedy pass over the sorted items from index i on: the raw lanes.
RECURSIVE PackLanes(_, _, _, _, _)
PackLanes(sorted, i, rightEdges, lanes, overlapPadding) ==
  IF i > Len(sorted) THEN lanes
  ELSE LET l == firstLane(rightEdges, sorted[i], overlapPadding)
           edges == IF l > Len(rightEdges)
                      THEN Append(rightEdges, sorted[i].right)
                      ELSE [rightEdges EXCEPT ![l] = sorted[i].right]
       IN  PackLanes(sorted, i + 1, edges, Append(lanes, l - 1), overlapPadding)

\* Raw lanes above the cap are folded onto it by modulo.
visualLane(rawLane, rawCount, laneCap) ==
  IF rawCount > laneCap THEN rawLane % laneCap ELSE rawLane

\* ring = ceil(visualLane / 2); an even lane is above the centerline
\* (direction -1), an odd lane below (direction 1).
laneRing(lane) == (lane + 1) \div 2

laneDirection(lane) == IF lane % 2 = 0 THEN -1 ELSE 1

\* The lane assignment of a list of items.
computeLayout(items, overlapPadding, laneCap) ==
  LET sorted == SortByLeft([i \in 1..Len(items) |-> floorWidth(items[i])])
      raw == PackLanes(sorted, 1, <<>>, <<>>, overlapPadding)
      rawCount == IF raw = <<>> THEN 0
                  ELSE 1 + SetMax({ raw[i] : i \in 1..Len(raw) })
  IN  [i \in 1..Len(sorted) |->
         LET lane == visualLane(raw[i], rawCount, laneCap)
         IN  [id |-> sorted[i].id,
              left |-> sorted[i].left,
              right |-> sorted[i].right,
              rawLane |-> raw[i],
              rawCount |-> rawCount,
              ring |-> laneRing(lane),
              direction |-> laneDirection(lane)]]

\* ------------------------------------------------------------------ state
VARIABLES
  viewStart, viewEnd,     \* HistoryArrow: the visible window, years-ago
  events,                 \* HistoryArrow: the events prop
  selectedEvent,          \* Home: id of the selected event, 0 for none
  isDragging, dragType,   \* LogarithmicMinimap: the drag in progress
  dragStartX,             \* LogarithmicMinimap: pointer x at mouse-down
  initialView,            \* LogarithmicMinimap: the window at mouse-down
  steps,                  \* number of gestures so far
  lastOp, lastArg,        \* history: the last gesture and its input
  prevView,               \* history: the window before the last gesture
  prevOp, prev2View,      \* history: the gesture before, and the window before it
  dragEmits,              \* history: <<displacement, window>> of this drag's moves
  startView,              \* history: the window the timeline started with
  fn, args, ret,          \* the last call of a utility: its name, inputs, result
  hoveredEvent,           \* HistoryArrow: id of the hovered event, 0 for null
  hoveredCluster,         \* HistoryArrow: <<>> for null, << cluster >> otherwise
  configured,             \* server: isSupabaseConfigured()
  mockEvents,             \* server: the events held (mockEvents or the events table)
  mockIdCounter,          \* server: the id of the next event
  mockLabels,             \* server: the labels held (mockLabels or the labels table)
  handler,                \* server: the labels handler between two awaits, or <<>>
  lastResponse,           \* server: the last response sent, with its number
  inFlight,               \* useEvents: the responses on their way to the hook
  hookEvents              \* useEvents: the ids of the events state

vars ==
  << viewStart, viewEnd, events, selectedEvent, isDragging, dragType,
     dragStartX, initialView, steps, lastOp, lastArg, prevView, prevOp,
     prev2View, dragEmits, startView, fn, args, ret, hoveredEvent,
     hoveredCluster, configured, mockEvents, mockIdCounter, mockLabels,
     handler, lastResponse, inFlight, hookEvents >>

\* The state of the timeline and of its minimap, with the history.
timeline ==
  << viewStart, viewEnd, events, selectedEvent, isDragging, dragType,
     dragStartX, initialView, steps, lastOp, lastArg, prevView, prevOp,
     prev2View, dragEmits, startView, hoveredEvent, hoveredCluster >>

\* The state of the server and of the useEvents hook.
backend ==
  << configured, mockEvents, mockIdCounter, mockLabels, handler, lastResponse,
     inFlight, hookEvents >>

view == [start |-> viewStart, end |-> viewEnd]

\* Pointer x positions, in hundredths of a percent of the minimap's width
\* measured from its left edge; the pointer may leave the minimap in a drag.
DownXs == { 3000, 6000 }

MoveXs == { -2000, 6000, 9000, 16000 }

ClickXs == { 0, 5000, 10000 }

DragTypes == { "move", "left", "right" }

InitTimeline ==
  /\ viewStart = DEFAULT_MIN_YEARS
  /\ viewEnd = CURRENT_YEAR
  /\ events \in EventLists
  /\ selectedEvent = 0
  /\ isDragging = FALSE
  /\ dragType = "none"
  /\ dragStartX = 0
  /\ initialView = [start |-> DEFAULT_MIN_YEARS, end |-> CURRENT_YEAR]
  /\ steps = 0
  /\ lastOp = "init"
  /\ lastArg = 0
  /\ prevView = [start |-> DEFAULT_MIN_YEARS, end |-> CURRENT_YEAR]
  /\ prevOp = "init"
  /\ prev2View = [start |-> DEFAULT_MIN_YEARS, end |-> CURRENT_YEAR]
  /\ dragEmits = <<>>
  /\ startView = [start |-> viewStart, end |-> viewEnd]
  /\ hoveredEvent = 0
  /\ hoveredCluster = <<>>

\* The server in mock mode with the first and the sixth of its mock events
\* and two of its mock labels; the hook before its first fetch.
InitBackend ==
  /\ mockEvents = << sampleEvents[6] >>
  /\ mockIdCounter = 8
  /\ mockLabels = << [id |-> 1, name |-> "nature"], [id |-> 4, name |-> "war"] >>
  /\ handler = <<>>
  /\ lastResponse = [n |-> 0, op |-> "none", status |-> 0, id |-> 0, name |-> ""]
  /\ inFlight = {}
  /\ hookEvents = <<>>

Init ==
  /\ InitTimeline
  /\ InitBackend
  /\ configured = FALSE
  /\ fn = "none"
  /\ args = <<>>
  /\ ret = <<>>

\* One more step of the session, remembered in the history variables.
Step(op, arg) ==
  /\ steps < MaxSteps
  /\ steps' = steps + 1
  /\ lastOp' = op
  /\ lastArg' = arg
  /\ prevView' = view
  /\ prevOp' = lastOp
  /\ prev2View' = prevView
  /\ startView' = startView
  /\ UNCHANGED << fn, args, ret >>
  /\ UNCHANGED backend

\* A gesture that calls neither setHoveredEvent nor setHoveredCluster.
Gesture(op, arg) ==
  /\ Step(op, arg)
  /\ UNCHANGED << hoveredEvent, hoveredCluster >>

\* setViewStart / setViewEnd
SetView(w) ==
  /\ viewStart' = w[1]
  /\ viewEnd' = w[2]

\* onViewChange(newStart, newEnd) of the minimap is handleViewChange.
onViewChange(w) == SetView(handleViewChange(w))

PanLeft ==
  /\ Gesture("panLeft", 0)
  /\ onViewChange(handlePanLeft(viewStart, viewEnd, DEFAULT_MAX_YEARS))
  /\ UNCHANGED << events, selectedEvent, isDragging, dragType, dragStartX,
                  initialView, dragEmits >>

PanRight ==
  /\ Gesture("panRight", 0)
  /\ onViewChange(handlePanRight(viewStart, viewEnd, DEFAULT_MIN_YEARS))
  /\ UNCHANGED << events, selectedEvent, isDragging, dragType, dragStartX,
                  initialView, dragEmits >>

ZoomIn ==
  /\ Gesture("zoomIn", 0)
  /\ onViewChange(handleZoomIn(viewStart, viewEnd, DEFAULT_MIN_YEARS, DEFAULT_MAX_YEARS))
  /\ UNCHANGED << events, selectedEvent, isDragging, dragType, dragStartX,
                  initialView, dragEmits >>

ZoomOut ==
  /\ Gesture("zoomOut", 0)
  /\ onViewChange(handleZoomOut(viewStart, viewEnd, DEFAULT_MIN_YEARS, DEFAULT_MAX_YEARS))
  /\ UNCHANGED << events, selectedEvent, isDragging, dragType, dragStartX,
                  initialView, dragEmits >>

\* handleMouseDown on a part of the viewfinder: captures the window.
MouseDown ==
  \E type \in DragTypes, x \in DownXs :
    /\ ~isDragging
    /\ Gesture("mouseDown", x)
    /\ isDragging' = TRUE
    /\ dragType' = type
    /\ dragStartX' = x
    /\ initialView' = view
    /\ dragEmits' = <<>>
    /\ UNCHANGED << viewStart, viewEnd, events, selectedEvent >>

\* handleMouseMove, listening on the window while a drag is in progress.
MouseMove ==
  \E x \in MoveXs :
    LET deltaPercent == x - dragStartX
        w == handleViewChange(
               handleMouseMove(initialView, dragType, deltaPercent, view,
                               DEFAULT_MIN_YEARS, DEFAULT_MAX_YEARS))
    IN  /\ isDragging
        /\ Gesture("mouseMove", deltaPercent)
        /\ SetView(w)
        /\ dragEmits' = Append(dragEmits, << deltaPercent, w >>)
        /\ UNCHANGED << events, selectedEvent, isDragging, dragType,
                        dragStartX, initialView >>

\* handleMouseUp
MouseUp ==
  /\ isDragging
  /\ Gesture("mouseUp", 0)
  /\ isDragging' = FALSE
  /\ dragType' = "none"
  /\ UNCHANGED << viewStart, viewEnd, events, selectedEvent, dragStartX,
                  initialView, dragEmits >>

\* handleMinimapClick: nothing happens while a drag is in progress.
MinimapClick ==
  \E x \in ClickXs :
    /\ ~isDragging
    /\ Gesture("click", x)
    /\ onViewChange(handleMinimapClick(x, viewStart, viewEnd,
                                       DEFAULT_MIN_YEARS, DEFAULT_MAX_YEARS))
    /\ UNCHANGED << events, selectedEvent, isDragging, dragType, dragStartX,
                    initialView, dragEmits >>

\* The Reset View button.
Reset ==
  /\ Gesture("reset", 0)
  /\ SetView(handleReset(events))
  /\ UNCHANGED << events, selectedEvent, isDragging, dragType, dragStartX,
                  initialView, dragEmits >>

\* handleEventCardClick: select the event and center the timeline on it,
\* or deselect it.
EventCardClick ==
  \E i \in 1..Len(events) :
    LET event == events[i]
        isDeselecting == selectedEvent = event.id
    IN  /\ Gesture(IF isDeselecting THEN "deselect" ELSE "center", event.id)
        /\ selectedEvent' = IF isDeselecting THEN 0 ELSE event.id
        /\ IF isDeselecting
             THEN UNCHANGED << viewStart, viewEnd >>
             ELSE SetView(centerOnEvent(event))
        /\ UNCHANGED << events, isDragging, dragType, dragStartX,
                        initialView, dragEmits >>

\* A click on one of the cluster indicators rendered for the window.
ClusterClick ==
  /\ steps < MaxSteps
  /\ LET shown == clusters(events, viewStart, viewEnd)
     IN  \E i \in 1..Len(shown) :
           /\ Step("cluster", i)
           /\ hoveredCluster' = <<>>                 \* setHoveredCluster(null)
           /\ SetView(handleClusterClick(shown[i]))
           /\ UNCHANGED hoveredEvent
           /\ UNCHANGED << events, selectedEvent, isDragging, dragType,
                           dragStartX, initialView, dragEmits >>

Next ==
  \/ PanLeft
  \/ PanRight
  \/ ZoomIn
  \/ ZoomOut
  \/ MouseDown
  \/ MouseMove
  \/ MouseUp
  \/ MinimapClick
  \/ Reset
  \/ EventCardClick
  \/ ClusterClick

Spec == Init /\ [][Next]_vars

\* ------------------------------------------- the timeline that zooms on the wheel
\* The HistoryArrow that handles the wheel starts at [1 year, 5e9 years].
WheelXs == { 0, 2500, 5000, 7500, 10000 }

InitWheel ==
  /\ viewStart = 0
  /\ viewEnd = DEFAULT_MAX_YEARS
  /\ events \in EventLists
  /\ selectedEvent = 0
  /\ isDragging = FALSE
  /\ dragType = "none"
  /\ dragStartX = 0
  /\ initialView = [start |-> 0, end |-> DEFAULT_MAX_YEARS]
  /\ steps = 0
  /\ lastOp = "init"
  /\ lastArg = 0
  /\ prevView = [start |-> 0, end |-> DEFAULT_MAX_YEARS]
  /\ prevOp = "init"
  /\ prev2View = [start |-> 0, end |-> DEFAULT_MAX_YEARS]
  /\ dragEmits = <<>>
  /\ startView = [start |-> viewStart, end |-> viewEnd]
  /\ hoveredEvent = 0
  /\ hoveredCluster = <<>>
  /\ InitBackend
  /\ configured = FALSE
  /\ fn = "none"
  /\ args = <<>>
  /\ ret = <<>>

\* handleWheel over the timeline.
Wheel ==
  \E mousePercent \in WheelXs, deltaY \in { -1, 1 } :
    /\ Gesture(IF deltaY > 0 THEN "wheelOut" ELSE "wheelIn", mousePercent)
    /\ onViewChange(handleWheel(mousePercent, deltaY, viewStart, viewEnd))
    /\ UNCHANGED << events, selectedEvent, isDragging, dragType, dragStartX,
                    initialView, dragEmits >>

ResetEarlier ==
  /\ Gesture("reset", 0)
  /\ SetView(handleResetEarlier(events))
  /\ UNCHANGED << events, selectedEvent, isDragging, dragType, dragStartX,
                  initialView, dragEmits >>

NextWheel ==
  \/ Wheel
  \/ PanLeft
  \/ PanRight
  \/ ZoomIn
  \/ ZoomOut
  \/ MouseDown
  \/ MouseMove
  \/ MouseUp
  \/ MinimapClick
  \/ ResetEarlier

SpecWheel == InitWheel /\ [][NextWheel]_vars

\* ------------------------------------------------------- either timeline
\* The sources hold both timelines; a session runs one of them from its
\* own start window to the end.
zoomsOnWheel == startView.start = 0

InitEither == Init \/ InitWheel

NextEither ==
  \/ PanLeft
  \/ PanRight
  \/ ZoomIn
  \/ ZoomOut
  \/ MouseDown
  \/ MouseMove
  \/ MouseUp
  \/ MinimapClick
  \/ ~zoomsOnWheel /\ Reset
  \/ ~zoomsOnWheel /\ EventCardClick
  \/ ~zoomsOnWheel /\ ClusterClick
  \/ zoomsOnWheel /\ Wheel
  \/ zoomsOnWheel /\ ResetEarlier

SpecEither == InitEither /\ [][NextEither]_vars

\* ------------------------------------------------- every move of the pointer
\* A pointer-move acts at any time.
handlesMouseMoveAlways(dragging) == TRUE

\* A pointer-move reaches handleMouseMove's body only in a drag: the window's
\* mousemove listener is registered while isDragging, and the handler
\* returns at once if (!isDragging).
handlesMouseMove(dragging) == dragging

\* A mousemove event on the window, in a drag or not.
PointerMove ==
  \E x \in MoveXs :
    LET deltaPercent == x - dragStartX
        w == handleViewChange(
               handleMouseMove(initialView, dragType, deltaPercent, view,
                               DEFAULT_MIN_YEARS, DEFAULT_MAX_YEARS))
    IN  /\ Gesture("pointerMove", deltaPercent)
        /\ IF handlesMouseMove(isDragging)
             THEN /\ SetView(w)
                  /\ dragEmits' = Append(dragEmits, << deltaPercent, w >>)
             ELSE UNCHANGED << viewStart, viewEnd, dragEmits >>
        /\ UNCHANGED << events, selectedEvent, isDragging, dragType,
                        dragStartX, initialView >>

NextPointer ==
  \/ MouseDown
  \/ PointerMove
  \/ MouseUp
  \/ PanLeft
  \/ ZoomIn
  \/ MinimapClick

SpecPointer == Init /\ [][NextPointer]_vars

\* ------------------------------------------------- the timeline under the pointer
\* The clusters and the members' ids of the current render.
shownClusters == clusters(events, viewStart, viewEnd)

clusteredEventIds == getClusteredEventIds(shownClusters)

\* handleEventHover from a marker's mouse-enter.
EventHover ==
  /\ steps < MaxSteps
  /\ LET shown == positionedEvents(events, viewStart, viewEnd)
     IN  \E i \in 1..Len(shown) :
           /\ Step("eventHover", shown[i].id)
           /\ hoveredEvent' = shown[i].id
           /\ UNCHANGED << viewStart, viewEnd, events, selectedEvent, isDragging,
                           dragType, dragStartX, initialView, dragEmits,
                           hoveredCluster >>

\* handleEventHover(null) from a marker's mouse-leave.
EventLeave ==
  /\ hoveredEvent # 0
  /\ Step("eventLeave", 0)
  /\ hoveredEvent' = 0
  /\ UNCHANGED << viewStart, viewEnd, events, selectedEvent, isDragging,
                  dragType, dragStartX, initialView, dragEmits, hoveredCluster >>

\* handleClusterHover from the mouse-enter of a cluster indicator.
ClusterHover ==
  /\ steps < MaxSteps
  /\ \E i \in 1..Len(shownClusters) :
       /\ Step("clusterHover", i)
       /\ hoveredCluster' = << shownClusters[i] >>
       /\ UNCHANGED << viewStart, viewEnd, events, selectedEvent, isDragging,
                       dragType, dragStartX, initialView, dragEmits,
                       hoveredEvent >>

\* handleClusterHover(null) from the mouse-leave of a cluster indicator.
ClusterLeave ==
  /\ hoveredCluster # <<>>
  /\ Step("clusterLeave", 0)
  /\ hoveredCluster' = <<>>
  /\ UNCHANGED << viewStart, viewEnd, events, selectedEvent, isDragging,
                  dragType, dragStartX, initialView, dragEmits, hoveredEvent >>

\* The home page passes another list of events: the label filter changed.
EventsChange ==
  \E evs \in EventLists \ { events } :
    /\ Step("events", Len(evs))
    /\ events' = evs
    /\ UNCHANGED << viewStart, viewEnd, selectedEvent, isDragging, dragType,
                    dragStartX, initialView, dragEmits, hoveredEvent,
                    hoveredCluster >>

NextHover ==
  \/ PanLeft
  \/ PanRight
  \/ ZoomIn
  \/ ZoomOut
  \/ MouseDown
  \/ MouseMove
  \/ MouseUp
  \/ MinimapClick
  \/ Reset
  \/ EventCardClick
  \/ ClusterClick
  \/ EventHover
  \/ EventLeave
  \/ ClusterHover
  \/ ClusterLeave
  \/ EventsChange

SpecHover == Init /\ [][NextHover]_vars

\* ------------------------------------------------------------- the server
\* A JSON value of a request body is <<>> (null or absent), << "num", n >>
\* or << "str", s >>.  In this section astronomical years are plain numbers.
\* Number(v) of a value that is not null, for the strings the explored
\* requests carry.
ToNumber(v) ==
  IF v[1] = "num" THEN v[2]
  ELSE CASE v[2] = "9" -> 9 [] v[2] = "10" -> 10 [] OTHER -> NaN

\* !!v
truthy(v) ==
  /\ v # <<>>
  /\ IF v[1] = "num" THEN v[2] # 0 /\ v[2] # NaN ELSE v[2] # ""

\* a <= b of two values that are not null: by the order of strings when
\* both are strings, as numbers otherwise; false when either is NaN.
lessOrEqual(a, b) ==
  LET StringRank(s) == CASE s = "10" -> 1 [] s = "9" -> 2 [] OTHER -> 3
  IN
  IF a[1] = "str" /\ b[1] = "str"
    THEN StringRank(a[2]) <= StringRank(b[2])
    ELSE /\ ToNumber(a) # NaN
         /\ ToNumber(b) # NaN
         /\ ToNumber(a) <= ToNumber(b)

\* validateEventData(body).valid, with the raw values tested.  Calendar
\* dates are tenths of a year before now: start >= end is start_date <= end_date.
validateEventData(body) ==
  LET date_type == IF body.date_type = "undefined" THEN "date" ELSE body.date_type
      zero == << "num", 0 >>
  IN  /\ body.title # ""
      /\ CASE date_type = "date" ->
                /\ body.start_date # <<>>
                /\ body.end_date # <<>> => ~(body.start_date[1] <= body.end_date[1])
            [] date_type = "astronomical" ->
                /\ truthy(body.astronomical_start_year)
                /\ ~lessOrEqual(body.astronomical_start_year, zero)
                /\ body.astronomical_end_year # <<>> =>
                     /\ ~lessOrEqual(body.astronomical_end_year, zero)
                     /\ ~lessOrEqual(body.astronomical_start_year,
                                     body.astronomical_end_year)
            [] OTHER -> FALSE

\* newEvent / updatedEvent of a valid body, with the id it is stored under.
newEvent(body, id) ==
  LET date_type == IF body.date_type = "undefined" THEN "date" ELSE body.date_type
      isDate == date_type = "date"
  IN  Ev(id, date_type,
         IF isDate THEN body.start_date ELSE <<>>,
         IF isDate THEN body.end_date ELSE <<>>,
         IF ~isDate THEN << ToNumber(body.astronomical_start_year) >> ELSE <<>>,
         IF ~isDate /\ truthy(body.astronomical_end_year)
           THEN << ToNumber(body.astronomical_end_year) >> ELSE <<>>,
         body.label)

\* The request bodies of the explored requests to /api/events.
EventBodies ==
  LET Body(title, date_type, sd, ed, ays, aye, label) ==
        [title |-> title, date_type |-> date_type, start_date |-> sd,
         end_date |-> ed, astronomical_start_year |-> ays,
         astronomical_end_year |-> aye, label |-> label]
  IN
  { Body("Event", "undefined", << 872 >>, << 812 >>, <<>>, <<>>, "nature"),
    Body("Event", "undefined", <<>>, <<>>, <<>>, <<>>, "nature"),
    Body("", "date", << 872 >>, <<>>, <<>>, <<>>, "war"),
    Body("Event", "era", << 872 >>, <<>>, <<>>, <<>>, "war"),
    Body("Event", "astronomical", << 872 >>, <<>>, << "num", 10 >>, << "num", 9 >>, "war"),
    Body("Event", "astronomical", <<>>, <<>>, << "num", 0 >>, <<>>, "war"),
    Body("Event", "astronomical", <<>>, <<>>, << "num", 9 >>, << "num", 10 >>, "war"),
    Body("Event", "astronomical", <<>>, <<>>, << "str", "9" >>, << "str", "10" >>, "nature"),
    Body("Event", "astronomical", <<>>, <<>>, << "str", "abc" >>, <<>>, "nature") }

\* The number of events the explored store holds at most.
MaxStored == 2

\* The rows the events table admits: its CHECK constraints.  A NaN reaches
\* the table as NULL.
tableAdmits(row) ==
  LET ays == row.astronomical_start_year
      aye == row.astronomical_end_year
  IN  IF row.date_type = "date"
        THEN /\ row.start_date # <<>>
             /\ row.end_date # <<>> => row.end_date[1] < row.start_date[1]
        ELSE /\ ays # <<>> /\ ays[1] # NaN /\ ays[1] > 0
             /\ (aye # <<>> /\ aye[1] # NaN) => ays[1] > aye[1]

\* The server sends a response; that to the deletion of a label tells the
\* label's id and name.
Respond(op, status, id, name) ==
  lastResponse' = [n |-> (lastResponse.n + 1) % 2, op |-> op, status |-> status,
                   id |-> id, name |-> name]

\* router.post('/'): POST /api/events.
PostEvent ==
  \E body \in EventBodies :
    /\ Len(mockEvents) < MaxStored
    /\ IF ~validateEventData(body)
         THEN /\ UNCHANGED << mockEvents, mockIdCounter >>
              /\ Respond("POST /api/events", 400, 0, "")
         ELSE IF configured /\ ~tableAdmits(newEvent(body, mockIdCounter))
           THEN /\ UNCHANGED << mockEvents, mockIdCounter >>
                /\ Respond("POST /api/events", 500, 0, "")
           ELSE /\ mockEvents' = Append(mockEvents, newEvent(body, mockIdCounter))
                /\ mockIdCounter' = mockIdCounter + 1
                /\ Respond("POST /api/events", 201, 0, "")
    /\ UNCHANGED << timeline, fn, args, ret, configured, mockLabels, handler,
                    inFlight, hookEvents >>

\* router.put('/:id'): PUT /api/events/:id.
PutEvent ==
  \E body \in EventBodies, id \in { 6, 8, 9 } :
    LET found == { i \in 1..Len(mockEvents) : mockEvents[i].id = id }
    IN  /\ IF ~validateEventData(body)
             THEN UNCHANGED mockEvents /\ Respond("PUT /api/events", 400, 0, "")
             ELSE IF found = {}
               THEN UNCHANGED mockEvents /\ Respond("PUT /api/events", 404, 0, "")
             ELSE IF configured /\ ~tableAdmits(newEvent(body, id))
               THEN UNCHANGED mockEvents /\ Respond("PUT /api/events", 500, 0, "")
               ELSE /\ mockEvents' = [mockEvents EXCEPT
                                        ![SetMin(found)] = newEvent(body, id)]
                    /\ Respond("PUT /api/events", 200, 0, "")
        /\ UNCHANGED << timeline, fn, args, ret, configured, mockIdCounter,
                        mockLabels, handler, inFlight, hookEvents >>

\* The labels: names as stored, trimmed and in lower case; colors are left
\* out.  A name of a request is "undefined" when the body has none and ""
\* when it is blank.
labelIndex(id) == { i \in 1..Len(mockLabels) : mockLabels[i].id = id }

\* The events with every label old replaced by new.
relabel(evs, old, new) ==
  [i \in 1..Len(evs) |-> IF evs[i].label = old THEN [evs[i] EXCEPT !.label = new]
                          ELSE evs[i]]

\* router.put('/:id') of the labels, up to its first await: all of it in
\* mock mode, the lookup of the label in database mode.
PutLabel ==
  \E id \in { 1, 4, 9 }, name \in { "undefined", "", "war", "epoch" } :
    LET found == labelIndex(id)
        oldName == mockLabels[SetMin(found)].name
        newName == IF name # "undefined" THEN name ELSE oldName
        labelNames == { mockLabels[i].name : i \in 1..Len(mockLabels) }
        op == "PUT /api/labels"
    IN  /\ handler = <<>>
        /\ IF name = ""
             THEN UNCHANGED << mockLabels, handler >> /\ Respond(op, 400, 0, "")
             ELSE IF found = {}
               THEN UNCHANGED << mockLabels, handler >> /\ Respond(op, 404, 0, "")
             ELSE IF ~configured
               THEN IF newName # oldName /\ newName \in labelNames
                      THEN /\ UNCHANGED << mockLabels, handler >>
                           /\ Respond(op, 409, 0, "")
                      ELSE /\ mockLabels' = [mockLabels EXCEPT
                                               ![SetMin(found)].name = newName]
                           /\ UNCHANGED handler
                           /\ Respond(op, 200, 0, "")
             ELSE IF name = "undefined"
               THEN UNCHANGED << mockLabels, handler >> /\ Respond(op, 200, 0, "")
               ELSE /\ handler' = [op |-> op, id |-> id, name |-> name,
                                   existing |-> oldName, changed |-> FALSE,
                                   pc |-> IF name # oldName THEN "events" ELSE "labels"]
                    /\ UNCHANGED << mockLabels, lastResponse >>
        /\ UNCHANGED << timeline, fn, args, ret, configured, mockEvents,
                        mockIdCounter, inFlight, hookEvents >>

\* If renaming, update all events referencing the old name.
PutLabelEvents ==
  /\ handler # <<>>
  /\ handler.op = "PUT /api/labels"
  /\ handler.pc = "events"
  /\ mockEvents' = relabel(mockEvents, handler.existing, handler.name)
  /\ handler' = [handler EXCEPT !.pc = "labels",
                                !.changed = mockEvents' # mockEvents]
  /\ UNCHANGED << timeline, fn, args, ret, configured, mockIdCounter,
                  mockLabels, lastResponse, inFlight, hookEvents >>

\* The update of the labels table: error 23505 when another label has the
\* name, PGRST116 when the label is gone.
PutLabelUpdate ==
  LET found == labelIndex(handler.id)
      taken == \E i \in 1..Len(mockLabels) :
                 mockLabels[i].name = handler.name /\ mockLabels[i].id # handler.id
  IN  /\ handler # <<>>
      /\ handler.op = "PUT /api/labels"
      /\ handler.pc = "labels"
      /\ handler' = <<>>
      /\ IF found = {}
           THEN UNCHANGED mockLabels /\ Respond(handler.op, 500, 0, "")
           ELSE IF taken
             THEN UNCHANGED mockLabels /\ Respond(handler.op, 409, 0, "")
             ELSE /\ mockLabels' = [mockLabels EXCEPT
                                      ![SetMin(found)].name = handler.name]
                  /\ Respond(handler.op, 200, 0, "")
      /\ UNCHANGED << timeline, fn, args, ret, configured, mockEvents,
                      mockIdCounter, inFlight, hookEvents >>

\* router.delete('/:id') of the labels, up to its first await: all of it in
\* mock mode, the lookup of the label's name in database mode.
DeleteLabel ==
  \E id \in { 1, 4, 9 } :
    LET found == labelIndex(id)
        labelName == mockLabels[SetMin(found)].name
        op == "DELETE /api/labels"
    IN  /\ handler = <<>>
        /\ IF found = {}
             THEN UNCHANGED << mockLabels, handler >> /\ Respond(op, 404, 0, "")
             ELSE IF ~configured
               THEN /\ mockLabels' = SelectSeq(mockLabels, LAMBDA l : l.id # id)
                    /\ UNCHANGED handler
                    /\ Respond(op, 204, id, labelName)
               ELSE /\ handler' = [op |-> op, id |-> id, name |-> labelName,
                                   existing |-> labelName, changed |-> FALSE,
                                   pc |-> "events"]
                    /\ UNCHANGED << mockLabels, lastResponse >>
        /\ UNCHANGED << timeline, fn, args, ret, configured, mockEvents,
                        mockIdCounter, inFlight, hookEvents >>

\* Nullify the label on all events that reference it; "" is null.
DeleteLabelEvents ==
  /\ handler # <<>>
  /\ handler.op = "DELETE /api/labels"
  /\ handler.pc = "events"
  /\ mockEvents' = relabel(mockEvents, handler.name, "")
  /\ handler' = [handler EXCEPT !.pc = "labels",
                                !.changed = mockEvents' # mockEvents]
  /\ UNCHANGED << timeline, fn, args, ret, configured, mockIdCounter,
                  mockLabels, lastResponse, inFlight, hookEvents >>

\* Delete the label.
DeleteLabelDelete ==
  /\ handler # <<>>
  /\ handler.op = "DELETE /api/labels"
  /\ handler.pc = "labels"
  /\ handler' = <<>>
  /\ mockLabels' = SelectSeq(mockLabels, LAMBDA l : l.id # handler.id)
  /\ Respond(handler.op, 204, handler.id, handler.name)
  /\ UNCHANGED << timeline, fn, args, ret, configured, mockEvents,
                  mockIdCounter, inFlight, hookEvents >>

InitServer ==
  /\ InitTimeline
  /\ events = filteredEvents(sampleEvents, { "nature" })
  /\ InitBackend
  /\ configured \in BOOLEAN
  /\ fn = "none"
  /\ args = <<>>
  /\ ret = <<>>

NextServer ==
  \/ PostEvent
  \/ PutEvent
  \/ PutLabel
  \/ PutLabelEvents
  \/ PutLabelUpdate
  \/ DeleteLabel
  \/ DeleteLabelEvents
  \/ DeleteLabelDelete

SpecServer == InitServer /\ [][NextServer]_vars

\* ----------------------------------------------------------- the useEvents hook
\* hookEvents is the events state of the hook.  A call of the hook sends its
\* request, the server handles it, and the response is in flight until the
\* call's continuation runs and sets the state; the continuations of
\* different calls run in any order.  A response is [op, id, data] with
\* data the events of its body.
\* The most responses in flight, and the largest id the server assigns.
MaxInFlight == 2

MaxEventId == 9

\* The bodies the form of the admin page sends: valid ones, the years numbers.
FormBodies ==
  { b \in EventBodies : validateEventData(b) /\ tableAdmits(newEvent(b, 0)) }

Sent(response) ==
  /\ Cardinality(inFlight) < MaxInFlight
  /\ inFlight' = inFlight \cup { response }

\* fetchEvents, the initial load and refetch, to its await: GET /api/events.
fetchEvents ==
  /\ Sent([op |-> "fetch", id |-> 0, data |-> mockEvents])
  /\ UNCHANGED << timeline, fn, args, ret, configured, mockEvents, mockIdCounter,
                  mockLabels, handler, lastResponse, hookEvents >>

\* createEvent to its await: POST /api/events.
createEvent ==
  \E body \in FormBodies :
    /\ Len(mockEvents) < MaxStored
    /\ mockIdCounter <= MaxEventId
    /\ mockEvents' = Append(mockEvents, newEvent(body, mockIdCounter))
    /\ mockIdCounter' = mockIdCounter + 1
    /\ Sent([op |-> "create", id |-> mockIdCounter,
             data |-> << newEvent(body, mockIdCounter) >>])
    /\ UNCHANGED << timeline, fn, args, ret, configured, mockLabels, handler,
                    lastResponse, hookEvents >>

\* updateEvent to its await: PUT /api/events/:id of an event of the list.
\* A response that is not ok throws and sets nothing.
updateEvent ==
  \E body \in FormBodies, k \in 1..Len(hookEvents) :
    LET id == hookEvents[k].id
        found == { i \in 1..Len(mockEvents) : mockEvents[i].id = id }
    IN  /\ found # {}
        /\ mockEvents' = [mockEvents EXCEPT ![SetMin(found)] = newEvent(body, id)]
        /\ Sent([op |-> "update", id |-> id, data |-> << newEvent(body, id) >>])
        /\ UNCHANGED << timeline, fn, args, ret, configured, mockIdCounter,
                        mockLabels, handler, lastResponse, hookEvents >>

\* deleteEvent to its await: DELETE /api/events/:id of an event of the list.
deleteEvent ==
  \E k \in 1..Len(hookEvents) :
    LET id == hookEvents[k].id
    IN  /\ \E i \in 1..Len(mockEvents) : mockEvents[i].id = id
        /\ mockEvents' = SelectSeq(mockEvents, LAMBDA e : e.id # id)
        /\ Sent([op |-> "delete", id |-> id, data |-> <<>>])
        /\ UNCHANGED << timeline, fn, args, ret, configured, mockIdCounter,
                        mockLabels, handler, lastResponse, hookEvents >>

\* The continuation of a call after its await: the setEvents of the call.
setEvents(response) ==
  CASE response.op = "fetch" -> response.data
    [] response.op = "create" -> hookEvents \o response.data
    [] response.op = "update" ->
         [i \in 1..Len(hookEvents) |->
            IF hookEvents[i].id = response.id THEN response.data[1]
            ELSE hookEvents[i]]
    [] OTHER -> SelectSeq(hookEvents, LAMBDA e : e.id # response.id)

\* A response arrives and the continuation of its call runs.
Completed(op) ==
  \E response \in inFlight :
    /\ response.op = op
    /\ hookEvents' = setEvents(response)
    /\ inFlight' = inFlight \ { response }
    /\ UNCHANGED << timeline, fn, args, ret, configured, mockEvents, mockIdCounter,
                    mockLabels, handler, lastResponse >>

NextHook ==
  \/ fetchEvents
  \/ createEvent
  \/ updateEvent
  \/ deleteEvent
  \/ Completed("fetch")
  \/ Completed("create")
  \/ Completed("update")
  \/ Completed("delete")

SpecHook == InitServer /\ [][NextHook]_vars

\* ------------------------------------------------------------ the utilities
\* The functions the timeline is built from, called on their own: the inputs
\* of a call are drawn at the start and the call's step computes the result.
\* ret is <<>> until the call has returned and << result >> afterwards.

\* Window bounds a caller may request, in centi-decades: below, at, inside,
\* at and above the timeline's domain.
RequestedYears == { -400, -300, -143, 0, 1, 331, 970, 1100 }

\* Years-ago values, in centi-decades, from below 0.001 years to above 5e9
\* years, and windows <<minYearsAgo, maxYearsAgo>> for the logarithmic scale:
\* the minimap's, the initial view, and views whose near bound is at, below
\* and above one year.
LogScaleYears ==
  { -400, -300, -143, -30, 0, 70, 100, 200, 300, 331, 600, 970, 1000 }

LogScaleWindows ==
  { << DEFAULT_MIN_YEARS, DEFAULT_MAX_YEARS >>,
    << DEFAULT_MIN_YEARS, CURRENT_YEAR >>,
    << 0, DEFAULT_MAX_YEARS >>, << -143, 331 >>, << 100, 300 >>,
    << 331, 500 >> }

\* Values and windows for the linear scale.  The fixed-point numbers resolve
\* one part in RelOne of the largest value and one part in PosFull of the
\* window, so the values are at least 10 centi-decades apart, the windows at
\* most two decades wide and a value at most two decades below the far bound
\* and 30 centi-decades (a factor of 2) above it.
LinearScaleYears ==
  { -100, -50, 0, 50, 100, 120, 150, 200, 230, 300, 320, 331, 400, 500, 520 }

LinearScaleWindows ==
  { << -100, 100 >>, << 0, 200 >>, << 100, 300 >>, << 331, 500 >> }

LinearScaleInputs ==
  { << y, w[1], w[2] >> : y \in LinearScaleYears, w \in LinearScaleWindows }

\* Calendar dates, in tenths of a year before now: after now, now, within
\* the last year and a half, and earlier.
StartDates == { -30, 0, 4, 5, 14, 15, 573, 1470 }

EndDates == { -45, -30, 0, 4, 14, 812 }

\* Stored astronomical years, in centi-decades, and the stored value 0.
AstronomicalStarts == { 331, 966 }

AstronomicalEnds == { 300, 960, ZeroYears }

\* Event records as the events table admits them: a calendar event's
\* end_date is after its start_date, an astronomical event's end year below
\* its start year.
EventRecords ==
  { r \in { Ev(8, "date", << sd >>, ed, <<>>, <<>>, "war") :
              sd \in StartDates,
              ed \in { <<>> } \cup { << d >> : d \in EndDates } } :
      r.end_date = <<>> \/ r.end_date[1] < r.start_date[1] }
  \cup
  { r \in { Ev(9, "astronomical", <<>>, <<>>, << as >>, ae, "nature") :
              as \in AstronomicalStarts,
              ae \in { <<>> } \cup { << y >> : y \in AstronomicalEnds } } :
      \/ r.astronomical_end_year = <<>>
      \/ r.astronomical_end_year[1] < r.astronomical_start_year[1] }

\* Lists of up to MaxListLen point events positioned in the window from 10
\* to 100 years ago, in any order and with repeats: at 10, 10.2, 10.5, 32
\* and 100 years the positions are 100%, 99.74%, 99.48%, 76% and 0%.
MaxListLen == 3

ClusteredYears == { 100, 101, 102, 150, 200 }

ClusterWindow == << 100, 200 >>

PointEvent(id, y) == Ev(id, "astronomical", <<>>, <<>>, << y >>, <<>>, "nature")

PositionedLists ==
  { positionedEvents([i \in 1..n |-> PointEvent(i, ys[i])],
                     ClusterWindow[1], ClusterWindow[2]) :
      n \in 0..MaxListLen, ys \in [1..MaxListLen -> ClusteredYears] }

\* Thresholds, in hundredths of a percent: 0.3%, the timeline's 1.5%, the
\* default 3%, and 30%.
Thresholds == { 30, 150, 300, 3000 }

\* The clusters the timeline shows for lists of 2 to MaxListLen point events
\* at 1, 100, 126, 1e6, 4.6e9 and 5e9 years, in the whole domain and in the
\* initial view.
ZoomYears == { 0, 200, 210, 600, 966, 970 }

ZoomLists ==
  { [i \in 1..n |-> PointEvent(i, ys[i])] :
      n \in 2..MaxListLen, ys \in [1..MaxListLen -> ZoomYears] }

OuterWindows ==
  { << DEFAULT_MIN_YEARS, DEFAULT_MAX_YEARS >>,
    << DEFAULT_MIN_YEARS, CURRENT_YEAR >> }

ShownClusters ==
  UNION { { clusters(l, w[1], w[2])[k] : k \in 1..Len(clusters(l, w[1], w[2])) } :
            l \in ZoomLists, w \in OuterWindows }

\* Events of the last years: a point event 0.4 years ago and a span from 2.5
\* to 0.4 years ago.
RecentEvents ==
  << Ev(8, "date", << 4 >>, <<>>, <<>>, <<>>, "discovery"),
     Ev(9, "date", << 25 >>, << 4 >>, <<>>, <<>>, "war") >>

\* Windows of the timeline: the initial view, the whole domain, the view
\* [4.07e9, 5e9] that a minimap click and a resize lead to, views that end
\* inside the sample spans, and the zero-width view [1, 1] of a resize.
ViewWindows ==
  { << DEFAULT_MIN_YEARS, CURRENT_YEAR >>,
    << DEFAULT_MIN_YEARS, DEFAULT_MAX_YEARS >>,
    << 961, DEFAULT_MAX_YEARS >>, << 192, CURRENT_YEAR >>, << 100, 193 >>,
    << 0, 20 >>, << 0, 0 >> }

\* The inputs of each utility.
\* Extents of items to lay out: three that overlap one another, one of zero
\* width inside them, one apart and one that starts where another ends.
LaneExtents ==
  { << 1000, 3000 >>, << 2000, 4000 >>, << 2500, 2500 >>, << 2600, 5000 >>,
    << 4000, 4500 >>, << 7000, 8000 >> }

LaneItems ==
  UNION { { [i \in 1..n |-> [id |-> i, left |-> xs[i][1], right |-> xs[i][2]]] :
              xs \in [1..n -> LaneExtents] } : n \in 0..MaxListLen }

Calls ==
  [ handleViewChange |-> RequestedYears \X RequestedYears,
    yearToLogPosition |->
      { << y, w[1], w[2] >> : y \in LogScaleYears, w \in LogScaleWindows },
    yearToLinearPosition |->
      { c \in LinearScaleInputs : c[3] - 200 <= c[1] /\ c[1] <= c[3] + 30 },
    eventToYearsAgo |-> { << e >> : e \in EventRecords },
    eventEndToYearsAgo |-> { << e >> : e \in EventRecords },
    isSpan |-> { << e >> : e \in EventRecords },
    \* with two points at 100 and 102 years ago in the window [1, 1000]
    detectClusters |->
      ({ <<>> } \cup { << l >> : l \in PositionedLists }
         \cup { << positionedEvents(<< PointEvent(1, 200), PointEvent(2, 201) >>,
                                    0, 300) >> }) \X Thresholds,
    getClusterZoomBounds |-> { << c >> : c \in ShownClusters },
    handleClusterClick |-> { << c >> : c \in ShownClusters },
    positionedEvents |->
      { << l, w[1], w[2] >> : l \in EventLists \cup { RecentEvents },
                              w \in ViewWindows },
    \* overlap paddings of 0% and 1%, lane caps of 2 and 3
    computeLayout |-> LaneItems \X { 0, 100 } \X { 2, 3 } ]

InitUtils ==
  /\ InitTimeline
  /\ InitBackend
  /\ configured = FALSE
  /\ \E f \in DOMAIN Calls : fn = f /\ args \in Calls[f]
  /\ ret = <<>>

\* The call of f is pending.
Pending(f) ==
  /\ fn = f
  /\ ret = <<>>
  /\ UNCHANGED << timeline, fn, args >>
  /\ UNCHANGED backend

\* The call of f has returned.
Returned(f) == fn = f /\ ret # <<>>

CallHandleViewChange ==
  /\ Pending("handleViewChange")
  /\ ret' = << handleViewChange(args) >>

CallYearToLogPosition ==
  /\ Pending("yearToLogPosition")
  /\ ret' = << yearToLogPosition(args[1], args[2], args[3]) >>

CallYearToLinearPosition ==
  /\ Pending("yearToLinearPosition")
  /\ ret' = << yearToLinearPosition(args[1], args[2], args[3]) >>

CallEventToYearsAgo ==
  /\ Pending("eventToYearsAgo")
  /\ ret' = << eventToYearsAgo(args[1]) >>

CallEventEndToYearsAgo ==
  /\ Pending("eventEndToYearsAgo")
  /\ ret' = << eventEndToYearsAgo(args[1]) >>

CallIsSpan ==
  /\ Pending("isSpan")
  /\ ret' = << isSpan(args[1]) >>

CallDetectClusters ==
  /\ Pending("detectClusters")
  /\ ret' = << detectClusters(args[1], args[2]) >>

CallGetClusterZoomBounds ==
  /\ Pending("getClusterZoomBounds")
  /\ ret' = << getClusterZoomBounds(args[1]) >>

CallHandleClusterClick ==
  /\ Pending("handleClusterClick")
  /\ ret' = << handleClusterClick(args[1]) >>

CallPositionedEvents ==
  /\ Pending("positionedEvents")
  /\ ret' = << positionedEvents(args[1], args[2], args[3]) >>

CallComputeLayout ==
  /\ Pending("computeLayout")
  /\ ret' = << computeLayout(args[1], args[2], args[3]) >>

NextUtils ==
  \/ CallHandleViewChange
  \/ CallYearToLogPosition
  \/ CallYearToLinearPosition
  \/ CallEventToYearsAgo
  \/ CallEventEndToYearsAgo
  \/ CallIsSpan
  \/ CallDetectClusters
  \/ CallGetClusterZoomBounds
  \/ CallHandleClusterClick
  \/ CallPositionedEvents
  \/ CallComputeLayout

SpecUtils == InitUtils /\ [][NextUtils]_vars

\* ------------------------------------------------------------------ claims
span(w) == w.end - w.start

\* The shift of one pan step from window w: 25% of its log-span.
PanShift(w) == (span(w) * 25) \div 100

\* One percentage point of the minimap's log scale, in centi-decades.
OnePercentOfDomain == (DEFAULT_MAX_YEARS * PosOne) \div PosFull

EventById(id) ==
  LET i == CHOOSE j \in 1..Len(events) : events[j].id = id
  IN  events[i]

\* The years-ago value midway between two years-ago values.
MidYears(a, b) ==
  LET top == Max(a, b)
  IN  top + LogRel((PowRel(a - top) + PowRel(b - top)) \div 2)

\* C1: after any sequence of view gestures from the initial window, the view
\* window satisfies DEFAULT_MIN_YEARS <= viewStart < viewEnd <= DEFAULT_MAX_YEARS.
C1_WindowWithinBounds ==
  /\ DEFAULT_MIN_YEARS <= viewStart
  /\ viewStart < viewEnd
  /\ viewEnd <= DEFAULT_MAX_YEARS

\* C2: the window a resize-left or resize-right pointer-move passes on has
\* viewStart < viewEnd, the two at least one percentage point apart on the
\* minimap's log scale.
C2_ResizeKeepsSeparation ==
  (lastOp = "mouseMove" /\ dragType \in { "left", "right" }) =>
    /\ viewStart < viewEnd
    /\ viewEnd - viewStart >= OnePercentOfDomain - Tol

\* C3: within one drag, two pointer-moves with the same displacement since
\* mouse-down emit the same window, whatever moves or other gestures came
\* between them and whatever the window was when they arrived.
C3_DragEmitsDependOnCaptureOnly ==
  \A i, j \in 1..Len(dragEmits) :
    dragEmits[i][1] = dragEmits[j][1] => dragEmits[i][2] = dragEmits[j][2]

\* A pointer-move repeats an earlier displacement of the drag after a
\* keyboard gesture or a reset changed the window in between.
C3_Witness ==
  /\ lastOp = "mouseMove"
  /\ prevOp \in { "panLeft", "panRight", "zoomIn", "zoomOut", "reset" }
  /\ prevView # prev2View
  /\ Len(dragEmits) >= 2
  /\ dragEmits[Len(dragEmits)][1] = dragEmits[Len(dragEmits) - 1][1]

\* C4: a pan step shifts both bounds by 25% of the log-span; when the shift
\* would cross DEFAULT_MAX_YEARS (pan-left) or DEFAULT_MIN_YEARS (pan-right)
\* the window is pinned at that bound and keeps its log-span.
C4_PanShiftsOrPins ==
  /\ lastOp = "panLeft" =>
       IF prevView.end + PanShift(prevView) > DEFAULT_MAX_YEARS
         THEN viewEnd = DEFAULT_MAX_YEARS /\ viewEnd - viewStart = span(prevView)
         ELSE /\ viewStart = prevView.start + PanShift(prevView)
              /\ viewEnd = prevView.end + PanShift(prevView)
  /\ lastOp = "panRight" =>
       IF prevView.start - PanShift(prevView) < DEFAULT_MIN_YEARS
         THEN viewStart = DEFAULT_MIN_YEARS /\ viewEnd - viewStart = span(prevView)
         ELSE /\ viewStart = prevView.start - PanShift(prevView)
              /\ viewEnd = prevView.end - PanShift(prevView)

\* A pan-left that crossed DEFAULT_MAX_YEARS from a window below it.
C4_Witness ==
  /\ lastOp = "panLeft"
  /\ prevView.end < DEFAULT_MAX_YEARS
  /\ prevView.end + PanShift(prevView) > DEFAULT_MAX_YEARS
  /\ span(prevView) > 0

\* C5 as stated: a pan-left step followed by a pan-right step returns the
\* window to its bounds before the two steps, from every reachable window.
C5_PanLeftRightReturns ==
  (lastOp = "panRight" /\ prevOp = "panLeft") =>
    /\ Abs(viewStart - prev2View.start) <= Tol
    /\ Abs(viewEnd - prev2View.end) <= Tol

\* C5 amended: it does when the pan-left step was not pinned at
\* DEFAULT_MAX_YEARS, that is when it shifted both bounds by the full 25%.
C5_UnpinnedPanLeftRightReturns ==
  (/\ lastOp = "panRight"
   /\ prevOp = "panLeft"
   /\ prevView.start = prev2View.start + PanShift(prev2View)
   /\ prevView.end = prev2View.end + PanShift(prev2View)) =>
    /\ Abs(viewStart - prev2View.start) <= Tol
    /\ Abs(viewEnd - prev2View.end) <= Tol

\* A pan-left that moved the window, not pinned, then a pan-right, from a
\* window whose near bound is within one pan step of DEFAULT_MIN_YEARS.
C5_Witness ==
  /\ lastOp = "panRight"
  /\ prevOp = "panLeft"
  /\ PanShift(prev2View) > 0
  /\ prevView.end = prev2View.end + PanShift(prev2View)
  /\ prev2View.start - PanShift(prev2View) < DEFAULT_MIN_YEARS

\* C6: after a zoom step anchored at the years-ago value under the pointer,
\* the screen position of that value under the new window equals its
\* position under the old window (within epsilon).
C6_ZoomAnchorFixed ==
  lastOp \in { "wheelIn", "wheelOut", "zoomIn", "zoomOut" } =>
    LET anchor == IF lastOp \in { "wheelIn", "wheelOut" }
                    THEN linearPositionToYear(lastArg, prevView.start, prevView.end)
                    ELSE (prevView.start + prevView.end) \div 2
        before == yearToLinearPosition(anchor, prevView.start, prevView.end)
        after == yearToLinearPosition(anchor, viewStart, viewEnd)
    IN  Abs(after - before) <= PosEps

\* C7 as stated: a zoom step multiplies the log-span by 0.7 (in) or 1.4
\* (out); zoom-in never enlarges it, zoom-out never shrinks it.
C7_ZoomMultipliesSpan ==
  /\ lastOp = "zoomIn" =>
       /\ Abs((viewEnd - viewStart) - (span(prevView) * 7) \div 10) <= Tol
       /\ viewEnd - viewStart <= span(prevView)
  /\ lastOp = "zoomOut" =>
       /\ Abs((viewEnd - viewStart) - (span(prevView) * 14) \div 10) <= Tol
       /\ viewEnd - viewStart >= span(prevView)

\* The zoomed window center -/+ target / 2 lies inside the domain.
ZoomFits(w, target) ==
  /\ (w.start + w.end - target) \div 2 >= DEFAULT_MIN_YEARS
  /\ (w.start + w.end + target) \div 2 <= DEFAULT_MAX_YEARS

\* C7 amended: the step aims at max(0.5, 0.7 x span) decades (in) or
\* min(10, 1.4 x span) decades (out); the new log-span is that target when the
\* zoomed window lies inside the domain and is below it when the window is
\* cut at a domain bound.  So zoom-in yields at most max(span, 0.5) and
\* zoom-out, from a window with viewStart <= viewEnd, at least min(span, 10).
C7_ZoomAimsAtClampedSpan ==
  /\ lastOp = "zoomIn" =>
       LET target == Max(50, (span(prevView) * 7) \div 10)
       IN  /\ viewEnd - viewStart <= target
           /\ ZoomFits(prevView, target) => viewEnd - viewStart = target
           /\ viewEnd - viewStart <= Max(span(prevView), 50)
  /\ lastOp = "zoomOut" =>
       LET target == Min(1000, (span(prevView) * 14) \div 10)
       IN  /\ viewEnd - viewStart <= target
           /\ ZoomFits(prevView, target) => viewEnd - viewStart = target
           /\ span(prevView) >= 0 => viewEnd - viewStart >= Min(span(prevView), 1000)

\* A zoom-in from a window narrower than 0.5 decades, which widens it.
C7_Witness ==
  /\ lastOp = "zoomIn"
  /\ span(prevView) > 0
  /\ span(prevView) < 50
  /\ viewEnd - viewStart > span(prevView)

\* C8 as stated: centerOnEvent sets the window to [DEFAULT_MIN_YEARS, 2 x m],
\* m the years-ago value of a point event and the midpoint of the start and
\* end years-ago values of a span event.
C8_CentersOnMidpoint ==
  lastOp = "center" =>
    LET event == EventById(lastArg)
        s == eventToYearsAgo(event)
        e == eventEndToYearsAgo(event)
        m == IF e = <<>> THEN s ELSE MidYears(s, e[1])
    IN  /\ viewStart = DEFAULT_MIN_YEARS
        /\ Abs(viewEnd - (m + 30)) <= Tol

\* C8 amended: centerOnEvent sets the window to
\* [DEFAULT_MIN_YEARS, min(2 x s, DEFAULT_MAX_YEARS)], s the event's start
\* years-ago value, for a point event and a span event alike.
C8_CentersOnTwiceStart ==
  lastOp = "center" =>
    LET s == eventToYearsAgo(EventById(lastArg))
    IN  /\ viewStart = DEFAULT_MIN_YEARS
        /\ viewEnd = (IF s + 30 <= DEFAULT_MAX_YEARS THEN s + 30 ELSE DEFAULT_MAX_YEARS)

\* The timeline was centered on a span event whose doubled start lies
\* inside the domain.
C8_Witness ==
  /\ lastOp = "center"
  /\ eventEndToYearsAgo(EventById(lastArg)) # <<>>
  /\ eventToYearsAgo(EventById(lastArg)) + 30 < DEFAULT_MAX_YEARS
  /\ selectedEvent = lastArg

\* C9 as stated: a click on the minimap background at any position yields a
\* window with the log-span of the window before and with the clicked
\* years-ago value as its log-midpoint.
C9_ClickRecenters ==
  lastOp = "click" =>
    LET clicked == logPositionToYear(lastArg, DEFAULT_MIN_YEARS, DEFAULT_MAX_YEARS)
    IN  /\ Abs((viewEnd - viewStart) - span(prevView)) <= Tol
        /\ Abs(viewStart + viewEnd - 2 * clicked) <= 2 * Tol

\* The window of the log-span of w centered on the clicked value lies inside
\* the domain.
ClickFits(w, clicked) ==
  /\ (2 * clicked - Abs(span(w))) \div 2 >= DEFAULT_MIN_YEARS
  /\ (2 * clicked + Abs(span(w))) \div 2 <= DEFAULT_MAX_YEARS

\* C9 amended: it does when the window of that log-span centered on the
\* clicked value lies inside [DEFAULT_MIN_YEARS, DEFAULT_MAX_YEARS]; otherwise
\* the window is cut at the bound it would cross, and its log-span is smaller
\* than before.
C9_ClickRecentersInsideDomain ==
  lastOp = "click" =>
    LET clicked == logPositionToYear(lastArg, DEFAULT_MIN_YEARS, DEFAULT_MAX_YEARS)
    IN  IF ClickFits(prevView, clicked)
          THEN /\ Abs((viewEnd - viewStart) - Abs(span(prevView))) <= Tol
               /\ Abs(viewStart + viewEnd - 2 * clicked) <= 2 * Tol
          ELSE /\ viewEnd - viewStart < Abs(span(prevView))
               /\ viewStart = DEFAULT_MIN_YEARS \/ viewEnd = DEFAULT_MAX_YEARS

\* A click that moved the window to a place inside the domain.
C9_Witness ==
  /\ lastOp = "click"
  /\ ClickFits(prevView, logPositionToYear(lastArg, DEFAULT_MIN_YEARS, DEFAULT_MAX_YEARS))
  /\ span(prevView) > 0
  /\ viewStart # prevView.start

C11_RequestClampedToMinimumSpan ==
  (Returned("handleViewChange") /\ args[1] >= args[2]) =>
    ret[1][1] < ret[1][2]

\* The arguments of a call of a scale function: the years-ago value (at least
\* one year or not) and the window's bounds.
argYears == args[1]

argMin == args[2]

argMax == args[3]

AtLeastOneYear == 0 <= argYears /\ argYears <= DEFAULT_MAX_YEARS

\* C12 (as stated): for every yearsAgo in [1, DEFAULT_MAX_YEARS] and every
\* window 0 < min < max, logPositionToYear(yearToLogPosition(yearsAgo)) is
\* yearsAgo within tolerance, and likewise linearPositionToYear(
\* yearToLinearPosition(yearsAgo)).
C12_RoundTrip ==
  /\ (Returned("yearToLogPosition") /\ AtLeastOneYear) =>
        Abs(logPositionToYear(ret[1], argMin, argMax) - argYears) <= Tol
  /\ (Returned("yearToLinearPosition") /\ AtLeastOneYear) =>
        Abs(linearPositionToYear(ret[1], argMin, argMax) - argYears)
          <= Tol

\* C12 (amended): the logarithmic round trip returns yearsAgo within
\* tolerance when yearsAgo lies inside the window, max(min, 1) <= yearsAgo
\* <= max, and the nearer of max(min, 1) and max otherwise; the linear round
\* trip returns yearsAgo within tolerance inside and outside the window.
C12_RoundTripInsideWindow ==
  /\ (Returned("yearToLogPosition") /\ AtLeastOneYear) =>
        LET back == logPositionToYear(ret[1], argMin, argMax)
            near == Max(argMin, 0)
        IN  /\ (near <= argYears /\ argYears <= argMax) =>
                  Abs(back - argYears) <= Tol
            /\ argYears < near => back = near
            /\ argYears > argMax => back = argMax
  /\ (Returned("yearToLinearPosition") /\ AtLeastOneYear) =>
        Abs(linearPositionToYear(ret[1], argMin, argMax) - argYears)
          <= Tol

\* A value of one year or more strictly inside a window whose near bound is
\* below one year has been converted to a position strictly inside (0, 100).
C12_Witness ==
  /\ Returned("yearToLogPosition")
  /\ argMin < 0
  /\ 0 < argYears /\ argYears < argMax
  /\ 0 < ret[1] /\ ret[1] < PosFull

\* C13: for every valid window, yearToLinearPosition and yearToLogPosition
\* are strictly decreasing in yearsAgo: y1 < y2 gives position(y1) >
\* position(y2), also for values below one year and at or beyond the
\* window's bounds (the minimap's window is [0.001, 5e9]).
C13_StrictlyDecreasing ==
  /\ Returned("yearToLogPosition") =>
        \A y2 \in LogScaleYears :
          argYears < y2 => yearToLogPosition(y2, argMin, argMax) < ret[1]
  /\ Returned("yearToLinearPosition") =>
        \A y2 \in LinearScaleYears :
          (<< y2, argMin, argMax >> \in Calls.yearToLinearPosition
             /\ argYears < y2) =>
            yearToLinearPosition(y2, argMin, argMax) < ret[1]

\* C14: yearToLogPosition returns a value in [0, 100] for every positive
\* yearsAgo and every window: 100 for yearsAgo at or below the near bound, 0
\* for yearsAgo at or above the far bound, and a value strictly between for
\* yearsAgo strictly inside the window, also when the near bound is below
\* one year.
C14_LogPositionInRange ==
  Returned("yearToLogPosition") =>
    /\ 0 <= ret[1] /\ ret[1] <= PosFull
    /\ argYears <= argMin => ret[1] = PosFull
    /\ argYears >= argMax => ret[1] = 0
    /\ (argMin < argYears /\ argYears < argMax) =>
          (0 < ret[1] /\ ret[1] < PosFull)

\* A position within the timeline's width.
OnScreen(pos) == 0 <= pos /\ pos <= PosFull

\* The window a call of positionedEvents was given.
argStart == args[2]

argEnd == args[3]

\* C15 (as stated): every event in positionedEvents (for a window with
\* viewStart < viewEnd) has startPos in [0, 100] and, when it is a span,
\* endPos in [0, 100].
C15_PositionsOnScreen ==
  (Returned("positionedEvents") /\ argStart < argEnd) =>
    \A i \in 1..Len(ret[1]) :
      /\ OnScreen(ret[1][i].startPos)
      /\ ret[1][i].isSpan => OnScreen(ret[1][i].endPos[1])

\* A years-ago value within the window.
InView(y) == argStart <= y /\ y <= argEnd

\* C15 (amended): in a window with viewStart < viewEnd every point event in
\* positionedEvents has startPos in [0, 100]; a span is in positionedEvents
\* when any part of it overlaps the window, its startPos is in [0, 100] when
\* its start lies in the window and at or below 0 when the start is older
\* than viewEnd, its endPos is in [0, 100] when its end lies in the window
\* and at or above 100 when the end is more recent than viewStart.
C15_PositionsFollowWindow ==
  (Returned("positionedEvents") /\ argStart < argEnd) =>
    \A i \in 1..Len(ret[1]) :
      LET e == ret[1][i]
      IN  /\ ~e.isSpan => OnScreen(e.startPos)
          /\ e.isSpan =>
                /\ InView(e.yearsAgo) => OnScreen(e.startPos)
                /\ e.yearsAgo > argEnd => e.startPos <= 0
                /\ e.startPos <= PosFull
                /\ InView(e.endYearsAgo[1]) => OnScreen(e.endPos[1])
                /\ e.endYearsAgo[1] < argStart => e.endPos[1] >= PosFull
                /\ e.endPos[1] >= 0

\* A span whose end is more recent than the window has been positioned, its
\* endPos beyond the right edge.
C15_Witness ==
  /\ Returned("positionedEvents")
  /\ argStart < argEnd
  /\ \E i \in 1..Len(ret[1]) :
       /\ ret[1][i].isSpan
       /\ ret[1][i].endYearsAgo[1] < argStart
       /\ ret[1][i].endPos[1] > PosFull

\* The event a call of an event utility was given.
argEvent == args[1]

\* C16: for every calendar event the derived years-ago values (the start,
\* and the end when there is one) are at least one year, also for dates at
\* or after now; for every astronomical event they are exactly the stored
\* astronomical_start_year and astronomical_end_year (a positive number or
\* null).
C16_DerivedYearsAgo ==
  /\ Returned("eventToYearsAgo") =>
        IF argEvent.date_type = "date"
          THEN ret[1] >= 0
          ELSE ret[1] = argEvent.astronomical_start_year[1]
  /\ Returned("eventEndToYearsAgo") =>
        IF argEvent.date_type = "date"
          THEN /\ (ret[1] = <<>>) = (argEvent.end_date = <<>>)
               /\ ret[1] # <<>> => ret[1][1] >= 0
          ELSE argEvent.astronomical_end_year # << ZeroYears >> =>
                 ret[1] = argEvent.astronomical_end_year

\* The years-ago value of a calendar event that starts at or after now has
\* been derived: one year.
C16_Witness ==
  /\ Returned("eventToYearsAgo")
  /\ argEvent.date_type = "date"
  /\ argEvent.start_date[1] <= 0
  /\ ret[1] = 0

\* The Event invariant: exactly one representation is populated, a calendar
\* event's end is after its start, an astronomical event's years are
\* positive and its end is below its start.
EventInvariant(e) ==
  IF e.date_type = "astronomical"
    THEN /\ e.start_date = <<>> /\ e.end_date = <<>>
         /\ e.astronomical_start_year # <<>>
         /\ e.astronomical_start_year # << ZeroYears >>
         /\ \/ e.astronomical_end_year = <<>>
            \/ /\ e.astronomical_end_year # << ZeroYears >>
               /\ e.astronomical_end_year[1] < e.astronomical_start_year[1]
    ELSE /\ e.astronomical_start_year = <<>> /\ e.astronomical_end_year = <<>>
         /\ e.start_date # <<>>
         /\ e.end_date = <<>> \/ e.end_date[1] < e.start_date[1]

\* The end value of the event's date kind.
EndValue(e) ==
  IF e.date_type = "astronomical" THEN e.astronomical_end_year ELSE e.end_date

\* C17: for every event satisfying the Event invariant, isSpan is true
\* exactly when the end value of its date kind (end_date or
\* astronomical_end_year) is present and non-null, and exactly when the
\* derived endYearsAgo is non-null.
C17_IsSpanIffEndPresent ==
  (Returned("isSpan") /\ EventInvariant(argEvent)) =>
    /\ ret[1] = (EndValue(argEvent) # <<>>)
    /\ ret[1] = (eventEndToYearsAgo(argEvent) # <<>>)

\* isSpan has answered for an astronomical event with an end year, and for
\* this call the answer is yes.
C17_Witness ==
  /\ Returned("isSpan")
  /\ EventInvariant(argEvent)
  /\ argEvent.date_type = "astronomical"
  /\ argEvent.astronomical_end_year # <<>>
  /\ ret[1] = TRUE

\* C18: for every input list and threshold, every cluster detectClusters
\* returns has at least 2 members, and every member but the first lies
\* within threshold (in startPos) of the member just before it in position
\* order; an empty or missing input gives an empty result.
C18_ClustersAreChains ==
  Returned("detectClusters") =>
    LET found == ret[1]
        threshold == args[2]
    IN  /\ \A k \in 1..Len(found) :
             LET members == found[k].events
             IN  /\ Len(members) >= 2
                 /\ found[k].count = Len(members)
                 /\ \A j \in 2..Len(members) :
                      /\ members[j - 1].startPos <= members[j].startPos
                      /\ members[j].startPos - members[j - 1].startPos
                           <= threshold
        /\ (args[1] = <<>> \/ args[1][1] = <<>>) => found = <<>>

\* detectClusters has returned a cluster of three members given out of
\* position order, each within threshold of the one before it and the last
\* further than threshold from the first.
C18_Witness ==
  /\ Returned("detectClusters")
  /\ Len(ret[1]) = 1
  /\ Len(ret[1][1].events) = 3
  /\ ret[1][1].events[3].startPos - ret[1][1].events[1].startPos > args[2]
  /\ args[1][1][1].startPos > args[1][1][2].startPos

\* The cluster a call was given, its members' years-ago values, and half of
\* the minimum span of getClusterZoomBounds (a quarter of a decade).
argCluster == args[1]

MemberYears == { argCluster.events[i].yearsAgo : i \in 1..Len(argCluster.events) }

HalfMinSpan == 25

\* The returned window lies in the domain, is not empty and holds every
\* member of the cluster.
HoldsCluster(w) ==
  /\ DEFAULT_MIN_YEARS <= w[1] /\ w[1] < w[2] /\ w[2] <= DEFAULT_MAX_YEARS
  /\ \A y \in MemberYears : w[1] <= y /\ y <= w[2]

\* C19 (as stated): for a cluster whose members lie in [1, DEFAULT_MAX_YEARS]
\* getClusterZoomBounds returns a window with DEFAULT_MIN_YEARS <= viewStart
\* < viewEnd <= DEFAULT_MAX_YEARS that holds every member; when all members
\* share one value v the window has positive width and is centered on v (on
\* the logarithmic scale the function works in).
C19_ZoomBoundsCentered ==
  Returned("getClusterZoomBounds") =>
    /\ HoldsCluster(ret[1])
    /\ argCluster.minYearsAgo = argCluster.maxYearsAgo =>
          ret[1][1] + ret[1][2] = 2 * argCluster.minYearsAgo

\* C19 (amended): the window lies in the domain, is not empty and holds
\* every member; when all members share one value v it reaches a quarter of
\* a decade to either side of v, centered on v, unless v is within a quarter
\* of a decade of DEFAULT_MAX_YEARS, where it ends at DEFAULT_MAX_YEARS.
C19_ZoomBoundsCenteredUnlessCut ==
  Returned("getClusterZoomBounds") =>
    /\ HoldsCluster(ret[1])
    /\ argCluster.minYearsAgo = argCluster.maxYearsAgo =>
          /\ ret[1][1] = argCluster.minYearsAgo - HalfMinSpan
          /\ ret[1][2] =
               Min(DEFAULT_MAX_YEARS, argCluster.minYearsAgo + HalfMinSpan)

\* The bounds for a cluster of members that share one value near
\* DEFAULT_MAX_YEARS have been computed.
C19_Witness ==
  /\ Returned("getClusterZoomBounds")
  /\ argCluster.minYearsAgo = argCluster.maxYearsAgo
  /\ argCluster.minYearsAgo + HalfMinSpan > DEFAULT_MAX_YEARS
  /\ ret[1][2] = DEFAULT_MAX_YEARS

\* The distance on screen, in the window w, between two years-ago values.
GapIn(w, a, b) ==
  Abs(yearToLinearPosition(a, w[1], w[2]) - yearToLinearPosition(b, w[1], w[2]))

\* The clustering threshold of the timeline: 1.5%.
ClusterThreshold == 150

\* C20 (as stated): for a cluster with at least two distinct member values
\* the window set by clicking it is such that the smallest gap between two
\* distinct member values occupies at least 8% of the view, so that those
\* members are no longer within the clustering threshold of one another.
C20_ClickSeparatesMembers ==
  Returned("handleClusterClick") =>
    \A a, b \in MemberYears :
      a # b => /\ GapIn(ret[1], a, b) >= 800        \* 8% of the view
               /\ GapIn(ret[1], a, b) > ClusterThreshold

\* C20 (amended): for a cluster with at least two distinct member values the
\* window set by clicking it holds every member and is the members' range on
\* the log10 scale widened on each side by half that range, or by what makes
\* the window half a decade wide if that is more, and cut to the domain.
C20_ClickPadsLogRange ==
  (Returned("handleClusterClick")
     /\ argCluster.minYearsAgo < argCluster.maxYearsAgo) =>
    LET lo == argCluster.minYearsAgo
        hi == argCluster.maxYearsAgo
        pad == Max((hi - lo) \div 2, HalfMinSpan - (hi - lo) \div 2)
        w == ret[1]
    IN  /\ HoldsCluster(w)
        /\ w[1] > DEFAULT_MIN_YEARS => Abs((lo - w[1]) - pad) <= 1
        /\ w[1] = DEFAULT_MIN_YEARS => lo - pad <= DEFAULT_MIN_YEARS + 1
        /\ w[2] < DEFAULT_MAX_YEARS => Abs((w[2] - hi) - pad) <= 1
        /\ w[2] = DEFAULT_MAX_YEARS => hi + pad >= DEFAULT_MAX_YEARS - 1

\* A click on a cluster has set a window in which two members with distinct
\* values are still within the clustering threshold of one another.
C20_Witness ==
  /\ Returned("handleClusterClick")
  /\ \E a, b \in MemberYears :
       a # b /\ GapIn(ret[1], a, b) <= ClusterThreshold

\* ---------------------------------------------------------------- C21
\* The point events of the current render.
shownPoints ==
  LET shown == positionedEvents(events, viewStart, viewEnd)
  IN  { shown[i] : i \in { j \in 1..Len(shown) : ~shown[j].isSpan } }

propsOf(e) ==
  markerProps(e, clusteredEventIds, hoveredEvent, selectedEvent, hoveredCluster)

\* C21: in every render, a point event that is a member of a cluster other
\* than the hovered one does not show its label, whatever the hovered event
\* and the selected event are.
C21_ClusteredLabelsHidden ==
  \A e \in shownPoints :
    (e.id \in clusteredEventIds /\ ~isInHoveredCluster(e, hoveredCluster))
      => ~pointLabel(propsOf(e))

\* A clustered point event outside the hovered cluster, hovered or selected.
C21_Witness ==
  \E e \in shownPoints :
    /\ e.id \in clusteredEventIds
    /\ ~isInHoveredCluster(e, hoveredCluster)
    /\ (hoveredEvent = e.id \/ selectedEvent = e.id)

\* ---------------------------------------------------------------- C27
\* C27: whenever hoveredCluster is non-null it is one of the clusters computed
\* for the current window and event set (the same members, by id).
C27_HoveredClusterIsCurrent ==
  hoveredCluster # <<>> =>
    \E i \in 1..Len(shownClusters) : shownClusters[i].id = hoveredCluster[1].id

\* ---------------------------------------------------------------- C22
\* Two laid-out items share a rendered lane / have overlapping extents.
SameLane(a, b) == a.ring = b.ring /\ a.direction = b.direction

Overlap(a, b) == a.left < b.right /\ b.left < a.right

laidOut == { ret[1][i] : i \in 1..Len(ret[1]) }

capturedLeftPos ==
  yearToLogPosition(initialView.end, DEFAULT_MIN_YEARS, DEFAULT_MAX_YEARS)

capturedRightPos ==
  yearToLogPosition(initialView.start, DEFAULT_MIN_YEARS, DEFAULT_MAX_YEARS)

\* C24: a move drag emits a window with the captured window's log-span for
\* every displacement that keeps the viewfinder inside the minimap, and the
\* captured window itself for a displacement of zero (up to Tol, the
\* rounding of the scale).
C24_MoveKeepsLogSpan ==
  (lastOp = "mouseMove" /\ dragType = "move" /\ initialView.start < initialView.end) =>
    /\ (capturedLeftPos + lastArg >= 0 /\ capturedRightPos + lastArg <= PosFull)
          => Abs(span(view) - span(initialView)) <= Tol
    /\ lastArg = 0
          => /\ Abs(viewStart - initialView.start) <= Tol
             /\ Abs(viewEnd - initialView.end) <= Tol

\* ---------------------------------------------------------------- C25
\* C25: after a mouse-up and until the next mouse-down on the viewfinder
\* (isDragging is false), a pointer-move never changes the view window.
C25_MoveOutsideDragIgnored ==
  [][(~isDragging /\ lastOp' = "pointerMove")
       => (viewStart' = viewStart /\ viewEnd' = viewEnd)]_vars

\* A pointer-move right after the mouse-up that ended a drag that had moved
\* the window.
C25_Witness ==
  /\ lastOp = "pointerMove"
  /\ prevOp = "mouseUp"
  /\ ~isDragging
  /\ dragEmits # <<>>
  /\ lastArg # 0

\* ---------------------------------------------------------------- C26
\* The events a call of detectClusters was given, and the clusters that
\* hold the event with a given id.
argEvents == IF args[1] = <<>> THEN {} ELSE { args[1][1][i] : i \in 1..Len(args[1][1]) }

ClustersOf(id) ==
  { k \in 1..Len(ret[1]) :
      \E j \in 1..Len(ret[1][k].events) : ret[1][k].events[j].id = id }

\* No third event lies strictly between a and b in position.
Adjacent(a, b) ==
  ~\E c \in argEvents :
     /\ Min(a.startPos, b.startPos) < c.startPos
     /\ c.startPos < Max(a.startPos, b.startPos)

\* C26: any two point events that are adjacent in position order and at
\* most threshold apart in startPos are members of the same cluster, and no
\* event is a member of more than one cluster.
C26_SingleLinkageComplete ==
  Returned("detectClusters") =>
    /\ \A a, b \in argEvents :
         (a.id # b.id /\ Adjacent(a, b)
            /\ Abs(a.startPos - b.startPos) <= args[2])
           => ClustersOf(a.id) \cap ClustersOf(b.id) # {}
    /\ \A a \in argEvents : Cardinality(ClustersOf(a.id)) <= 1

\* The scenario: points at 100 and 102 years ago in the window [1, 1000]
\* with the 3% threshold form one cluster of two members.
C26_Witness ==
  /\ Returned("detectClusters")
  /\ args[2] = 300
  /\ { e.yearsAgo : e \in argEvents } = { 200, 201 }
  /\ Len(ret[1]) = 1
  /\ ret[1][1].count = 2

\* ---------------------------------------------------------------- C23
\* C23: every event held by the mock event store has exactly one date
\* representation populated, consistent with date_type: for "date",
\* start_date is non-null and both astronomical fields are null; for
\* "astronomical", astronomical_start_year > 0, astronomical_end_year is null
\* or strictly less than the start, and both calendar fields are null.
C23_StoredEventsWellFormed ==
  ~configured =>
    \A i \in 1..Len(mockEvents) :
      LET e == mockEvents[i]
          ays == e.astronomical_start_year
          aye == e.astronomical_end_year
      IN  IF e.date_type = "date"
            THEN e.start_date # <<>> /\ ays = <<>> /\ aye = <<>>
            ELSE /\ e.date_type = "astronomical"
                 /\ ays # <<>> /\ ays[1] # NaN /\ ays[1] > 0
                 /\ aye = <<>> \/ (aye[1] # NaN /\ aye[1] < ays[1])
                 /\ e.start_date = <<>> /\ e.end_date = <<>>

\* ---------------------------------------------------------------- C29
\* C29: when PUT /api/labels/:id ends in an error response (409, 400 or
\* 404), neither any label record nor the label field of any event has been
\* changed by that request: not by the step that responds, and not by an
\* earlier step of the same request.
C29_FailedRenameChangesNothing ==
  [][(/\ lastResponse'.n # lastResponse.n
      /\ lastResponse'.op = "PUT /api/labels"
      /\ lastResponse'.status \in { 400, 404, 409 })
     => /\ mockLabels' = mockLabels
        /\ mockEvents' = mockEvents
        /\ handler # <<>> => ~handler.changed]_vars

\* ---------------------------------------------------------------- C30
\* C30: after DELETE /api/labels/:id returns 204, the label no longer exists
\* and no event's label field references the deleted label's name, in mock
\* mode and in database mode, whatever event requests ran in between.
C30_DeletedLabelUnreferenced ==
  [][(/\ lastResponse'.n # lastResponse.n
      /\ lastResponse'.op = "DELETE /api/labels"
      /\ lastResponse'.status = 204)
     => /\ \A i \in 1..Len(mockLabels') : mockLabels'[i].id # lastResponse'.id
        /\ \A i \in 1..Len(mockEvents') :
             mockEvents'[i].label # lastResponse'.name]_vars

\* ---------------------------------------------------------------- C28
\* C28: under every interleaving of the completions of fetchEvents,
\* createEvent, updateEvent and deleteEvent, the events list held by the
\* useEvents hook never contains two entries with the same id.
C28_HookIdsUnique ==
  \A i, j \in 1..Len(hookEvents) :
    hookEvents[i].id = hookEvents[j].id => i = j

====
